---- MODULE Spec2Model ----
(***************************************************************************)
(* TemplateDX (packages/templatedx-python): the two-tier filter and tag    *)
(* plugin registries, the Scope, the expression lexer / parser /           *)
(* evaluator, the node transformer and the built-in tag plugins.           *)
(***************************************************************************)
EXTENDS Integers, Sequences, FiniteSets, TLC

\* Python's None, and the marker of a key that a dict does not hold.
None == "<None>"

\* The element of a one-element set.  The({F(x) : x \in {e}}) is F(e) with e
\* evaluated once.
The(S) == CHOOSE x \in S : TRUE

(***************************************************************************)
(* Values: Python values as tagged records                                 *)
(***************************************************************************)

\* None
VNull == [t |-> "null"]

\* True / False
VBool(b) == [t |-> "bool", v |-> b]

RECURSIVE gcd(_, _)
gcd(a, b) == IF b = 0 THEN a ELSE gcd(b, a % b)

Abs(n) == IF n < 0 THEN 0 - n ELSE n

\* An int (f = FALSE) or a float (f = TRUE) of value n / d, in lowest terms with
\* d > 0 (floats are modelled as exact rationals; rounding is not).
VNum(n, d, isFloat) ==
    LET sn == IF d < 0 THEN 0 - n ELSE n
        sd == Abs(d)
        g == gcd(Abs(sn), sd)
    IN [t |-> "num", f |-> isFloat, v |-> sn \div g, d |-> sd \div g]

\* An int
VInt(n) == VNum(n, 1, FALSE)

\* A str
VStr(s) == [t |-> "str", v |-> s]

\* A list
VList(items) == [t |-> "list", v |-> items]

\* A dict with string keys
VDict(d) == [t |-> "dict", v |-> d]

\* Any other object: its attributes by name
VObj(attrs) == [t |-> "obj", v |-> attrs]

(***************************************************************************)
(* ExpressionLexer                                                         *)
(***************************************************************************)

\* expression[pos] (pos counts from 0, as in the source)
CharAt(expression, pos) == SubSeq(expression, pos + 1, pos + 1)

\* str.isdigit() on the ASCII digits
IsDigit(c) == c \in {"0", "1", "2", "3", "4", "5", "6", "7", "8", "9"}

\* str.isalpha() on the ASCII letters
IsAlpha(c) ==
    c \in {"a", "b", "c", "d", "e", "f", "g", "h", "i", "j", "k", "l", "m", "n", "o", "p", "q",
           "r", "s", "t", "u", "v", "w", "x", "y", "z", "A", "B", "C", "D", "E", "F", "G", "H",
           "I", "J", "K", "L", "M", "N", "O", "P", "Q", "R", "S", "T", "U", "V", "W", "X", "Y",
           "Z"}

\* str.isspace()
IsSpace(c) == c \in {" ", "\t", "\n", "\r"}

\* The decimal value of a digit character.
DigitValue(c) ==
    CASE c = "0" -> 0 [] c = "1" -> 1 [] c = "2" -> 2 [] c = "3" -> 3 [] c = "4" -> 4
      [] c = "5" -> 5 [] c = "6" -> 6 [] c = "7" -> 7 [] c = "8" -> 8 [] c = "9" -> 9

\* ExpressionLexer.OPERATORS
OPERATORS ==
    {"+", "-", "*", "/", "%", "==", "!=", "===", "!==", ">", ">=", "<", "<=", "&&", "||", "!"}

\* ExpressionLexer.KEYWORDS
KEYWORDS == {"true", "false", "null", "undefined"}

\* A token; `value` is the Python value the token carries.
Token(type, value, position) == [type |-> type, value |-> value, position |-> position]

\* The outcome of a lexer step: the exception raised ("none" if none), the token
\* read and the position after it.
LexOk(token, pos) == [exc |-> "none", token |-> token, pos |-> pos]

LexRaise(exc) == [exc |-> exc, token |-> Token("eof", VNull, 0), pos |-> 0]

RECURSIVE skip_whitespace(_, _)
\* ExpressionLexer._skip_whitespace
skip_whitespace(expression, pos) ==
    IF pos < Len(expression) /\ IsSpace(CharAt(expression, pos))
    THEN skip_whitespace(expression, pos + 1)
    ELSE pos

\* ExpressionLexer._peek_digit
peek_digit(expression, pos) ==
    pos + 1 < Len(expression) /\ IsDigit(CharAt(expression, pos + 1))

\* ExpressionLexer._is_operator_start
is_operator_start(c) == c \in {"+", "-", "*", "/", "%", "=", "!", "<", ">", "&", "|"}

RECURSIVE read_string_loop(_, _, _, _, _)
\* The while loop of ExpressionLexer._read_string.
read_string_loop(expression, quote, start, pos, value) ==
    IF pos < Len(expression)
    THEN LET char == CharAt(expression, pos)
         IN IF char = quote
            THEN LexOk(Token("string", VStr(value), start), pos + 1)
            ELSE IF char = "\\"
            THEN IF pos + 1 < Len(expression)
                 THEN LET escaped == CharAt(expression, pos + 1)
                          piece == CASE escaped = "n" -> "\n"
                                     [] escaped = "t" -> "\t"
                                     [] escaped = "r" -> "\r"
                                     [] OTHER -> escaped
                      IN read_string_loop(expression, quote, start, pos + 2, value \o piece)
                 ELSE read_string_loop(expression, quote, start, pos + 1, value)
            ELSE read_string_loop(expression, quote, start, pos + 1, value \o char)
    ELSE LexRaise("LexerError")

\* ExpressionLexer._read_string
read_string(expression, pos, quote) == read_string_loop(expression, quote, pos, pos + 1, "")

RECURSIVE digits_end(_, _)
\* while self.pos < self.length and self.expression[self.pos].isdigit(): the position after
digits_end(expression, pos) ==
    IF pos < Len(expression) /\ IsDigit(CharAt(expression, pos))
    THEN digits_end(expression, pos + 1)
    ELSE pos

RECURSIVE digits_value(_, _, _, _)
\* The number written by the digits of expression[from:to], appended to acc.
digits_value(expression, from, to, acc) ==
    IF from < to
    THEN digits_value(expression, from + 1, to, 10 * acc + DigitValue(CharAt(expression, from)))
    ELSE acc

RECURSIVE pow10(_)
pow10(n) == IF n = 0 THEN 1 ELSE 10 * pow10(n - 1)

\* float(value) for value = [-]int[.frac][e[+-]exp]: mantissa * 10^exp.
float_of(sign, intPart, fracPart, fracLen, expSign, expDigits) ==
    LET mant == sign * (intPart * pow10(fracLen) + fracPart)
        e == expSign * expDigits - fracLen
    IN IF e >= 0 THEN VNum(mant * pow10(e), 1, TRUE) ELSE VNum(mant, pow10(0 - e), TRUE)

\* ExpressionLexer._read_number; float("1e") and float("1e+") raise ValueError.
read_number(expression, pos) ==
    LET neg == CharAt(expression, pos) = "-"
        p0 == IF neg THEN pos + 1 ELSE pos
        p1 == digits_end(expression, p0)
        hasDot == p1 < Len(expression) /\ CharAt(expression, p1) = "."
        p2 == IF hasDot THEN digits_end(expression, p1 + 1) ELSE p1
        hasExp == p2 < Len(expression) /\ CharAt(expression, p2) \in {"e", "E"}
        hasSign == hasExp /\ p2 + 1 < Len(expression) /\ CharAt(expression, p2 + 1) \in {"+", "-"}
        p3 == IF hasExp THEN (IF hasSign THEN p2 + 2 ELSE p2 + 1) ELSE p2
        p4 == IF hasExp THEN digits_end(expression, p3) ELSE p2
        sign == IF neg THEN 0 - 1 ELSE 1
        intPart == digits_value(expression, p0, p1, 0)
    IN IF hasDot \/ hasExp
       THEN IF hasExp /\ p4 = p3
            THEN LexRaise("ValueError")
            ELSE LexOk(Token("number",
                             float_of(sign, intPart,
                                      IF hasDot THEN digits_value(expression, p1 + 1, p2, 0)
                                                ELSE 0,
                                      IF hasDot THEN p2 - (p1 + 1) ELSE 0,
                                      IF hasSign /\ CharAt(expression, p2 + 1) = "-"
                                      THEN 0 - 1 ELSE 1,
                                      IF hasExp THEN digits_value(expression, p3, p4, 0)
                                                ELSE 0),
                             pos), p4)
       ELSE LexOk(Token("number", VInt(sign * intPart), pos), p1)

RECURSIVE identifier_end(_, _)
\* The while loop of ExpressionLexer._read_identifier: the position after the name.
identifier_end(expression, pos) ==
    IF pos < Len(expression)
       /\ (IsAlpha(CharAt(expression, pos)) \/ IsDigit(CharAt(expression, pos))
           \/ CharAt(expression, pos) = "_")
    THEN identifier_end(expression, pos + 1)
    ELSE pos

\* ExpressionLexer._read_identifier
read_identifier(expression, pos) ==
    LET end == identifier_end(expression, pos)
        value == SubSeq(expression, pos + 1, end)
    IN IF value \in KEYWORDS
       THEN LexOk(CASE value = "true" -> Token("boolean", VBool(TRUE), pos)
                    [] value = "false" -> Token("boolean", VBool(FALSE), pos)
                    [] OTHER -> Token("null", VNull, pos), end)
       ELSE LexOk(Token("identifier", VStr(value), pos), end)

\* ExpressionLexer._read_operator
read_operator(expression, pos) ==
    LET char == CharAt(expression, pos)
        two_char == SubSeq(expression, pos + 1, pos + 2)
    IN IF pos + 1 < Len(expression) /\ two_char \in OPERATORS
       THEN IF pos + 2 < Len(expression) /\ two_char \in {"==", "!="}
               /\ CharAt(expression, pos + 2) = "="
            THEN LexOk(Token("operator", VStr(two_char \o "="), pos), pos + 3)
            ELSE LexOk(Token("operator", VStr(two_char), pos), pos + 2)
       ELSE IF char \in OPERATORS
            THEN LexOk(Token("operator", VStr(char), pos), pos + 1)
            ELSE LexRaise("LexerError")

\* The punctuation tokens of ExpressionLexer.tokenize.
PunctuationType(c) ==
    CASE c = "(" -> "paren_open" [] c = ")" -> "paren_close"
      [] c = "[" -> "bracket_open" [] c = "]" -> "bracket_close"
      [] c = "{" -> "brace_open" [] c = "}" -> "brace_close"
      [] c = "." -> "dot" [] c = "," -> "comma" [] c = ":" -> "colon"

\* One iteration of the loop of ExpressionLexer.tokenize, at a non-blank char.
read_token(expression, pos) ==
    LET char == CharAt(expression, pos)
    IN IF char \in {"(", ")", "[", "]", "{", "}", ".", ",", ":"}
       THEN LexOk(Token(PunctuationType(char), VStr(char), pos), pos + 1)
       ELSE IF char \in {"\"", "'"} THEN read_string(expression, pos, char)
       ELSE IF IsDigit(char) \/ (char = "-" /\ peek_digit(expression, pos))
       THEN read_number(expression, pos)
       ELSE IF IsAlpha(char) \/ char = "_" THEN read_identifier(expression, pos)
       ELSE IF is_operator_start(char) THEN read_operator(expression, pos)
       ELSE LexRaise("LexerError")

RECURSIVE tokenize_loop(_, _, _)
\* The while loop of ExpressionLexer.tokenize.
tokenize_loop(expression, pos, tokens) ==
    LET p == skip_whitespace(expression, pos)
    IN IF p >= Len(expression)
       THEN [exc |-> "none", tokens |-> Append(tokens, Token("eof", VNull, p))]
       ELSE LET r == read_token(expression, p)
            IN IF r.exc # "none"
               THEN [exc |-> r.exc, tokens |-> <<>>]
               ELSE tokenize_loop(expression, r.pos, Append(tokens, r.token))

\* ExpressionLexer.tokenize
tokenize(expression) == tokenize_loop(expression, 0, <<>>)

(***************************************************************************)
(* ExpressionParser                                                        *)
(***************************************************************************)

LiteralNode(value) == [k |-> "Literal", value |-> value]

IdentifierNode(name) == [k |-> "Identifier", name |-> name]

MemberExpressionNode(object, property, computed) ==
    [k |-> "Member", object |-> object, property |-> property, computed |-> computed]

CallExpressionNode(callee, arguments) ==
    [k |-> "Call", callee |-> callee, arguments |-> arguments]

BinaryExpressionNode(operator, left, right) ==
    [k |-> "Binary", operator |-> operator, left |-> left, right |-> right]

UnaryExpressionNode(operator, argument) ==
    [k |-> "Unary", operator |-> operator, argument |-> argument]

ArrayExpressionNode(elements) == [k |-> "Array", elements |-> elements]

ObjectExpressionNode(properties) == [k |-> "Object", properties |-> properties]

\* ExpressionParser.PRECEDENCE.get(op): None (0 here) for an operator not in the table.
PRECEDENCE(op) ==
    CASE op = "||" -> 1
      [] op = "&&" -> 2
      [] op \in {"==", "!=", "===", "!=="} -> 3
      [] op \in {"<", ">", "<=", ">="} -> 4
      [] op \in {"+", "-"} -> 5
      [] op \in {"*", "/", "%"} -> 6
      [] OTHER -> 0

\* The outcome of a parser method: ParseError raised or not, the node built and
\* the parser position after it.
ParseOk(node, pos) == [err |-> FALSE, node |-> node, pos |-> pos]

ParseRaise == [err |-> TRUE, node |-> LiteralNode(VNull), pos |-> 0]

\* ExpressionParser._current (pos counts from 0)
current(tokens, pos) == tokens[pos + 1]

\* ExpressionParser._advance: the position after advancing
advance(tokens, pos) == IF pos < Len(tokens) - 1 THEN pos + 1 ELSE pos

RECURSIVE parse_expression(_, _, _)
RECURSIVE parse_binary_loop(_, _, _, _)
RECURSIVE parse_unary(_, _)
RECURSIVE parse_call_member(_, _)
RECURSIVE parse_postfix_loop(_, _, _)
RECURSIVE parse_arguments_loop(_, _, _)
RECURSIVE parse_primary(_, _)
RECURSIVE parse_array_loop(_, _, _)
RECURSIVE parse_object_loop(_, _, _)

\* The while loop of _parse_expression parsing the right operand at the
\* operator's own precedence.
parse_binary_loop_right(tokens, pos, left, min_precedence) ==
    LET token == current(tokens, pos)
        precedence == PRECEDENCE(token.value.v)
    IN IF token.type # "operator" THEN ParseOk(left, pos)
       ELSE IF precedence = 0 \/ precedence < min_precedence THEN ParseOk(left, pos)
       ELSE LET right == parse_expression(tokens, advance(tokens, pos), precedence)
            IN IF right.err THEN ParseRaise
               ELSE parse_binary_loop(tokens, right.pos,
                                      BinaryExpressionNode(token.value.v, left, right.node),
                                      min_precedence)

\* ExpressionParser._parse_expression
parse_expression(tokens, pos, min_precedence) ==
    LET left == parse_unary(tokens, pos)
    IN IF left.err THEN ParseRaise
       ELSE parse_binary_loop(tokens, left.pos, left.node, min_precedence)

\* The while loop of ExpressionParser._parse_expression.
parse_binary_loop(tokens, pos, left, min_precedence) ==
    LET token == current(tokens, pos)
        precedence == PRECEDENCE(token.value.v)
    IN IF token.type # "operator" THEN ParseOk(left, pos)
       ELSE IF precedence = 0 \/ precedence < min_precedence THEN ParseOk(left, pos)
       ELSE LET right == parse_expression(tokens, advance(tokens, pos), precedence + 1)
            IN IF right.err THEN ParseRaise
               ELSE parse_binary_loop(tokens, right.pos,
                                      BinaryExpressionNode(token.value.v, left, right.node),
                                      min_precedence)

\* ExpressionParser._parse_unary
parse_unary(tokens, pos) ==
    LET token == current(tokens, pos)
    IN IF token.type = "operator" /\ token.value.v \in {"!", "-", "+"}
       THEN LET argument == parse_unary(tokens, advance(tokens, pos))
            IN IF argument.err THEN ParseRaise
               ELSE ParseOk(UnaryExpressionNode(token.value.v, argument.node), argument.pos)
       ELSE parse_call_member(tokens, pos)

\* ExpressionParser._parse_call_member
parse_call_member(tokens, pos) ==
    LET node == parse_primary(tokens, pos)
    IN IF node.err THEN ParseRaise ELSE parse_postfix_loop(tokens, node.pos, node.node)

\* ExpressionParser._parse_arguments after the first argument: the comma loop.
parse_arguments_loop(tokens, pos, args) ==
    IF current(tokens, pos).type = "comma"
    THEN LET a == parse_expression(tokens, advance(tokens, pos), 0)
         IN IF a.err THEN ParseRaise
            ELSE parse_arguments_loop(tokens, a.pos, Append(args, a.node))
    ELSE ParseOk(args, pos)

\* ExpressionParser._parse_arguments; `node` of the outcome is the argument list.
parse_arguments(tokens, pos) ==
    IF current(tokens, pos).type = "paren_close" THEN ParseOk(<<>>, pos)
    ELSE LET a == parse_expression(tokens, pos, 0)
         IN IF a.err THEN ParseRaise ELSE parse_arguments_loop(tokens, a.pos, <<a.node>>)

\* The while loop of ExpressionParser._parse_call_member.
parse_postfix_loop(tokens, pos, node) ==
    LET token == current(tokens, pos)
    IN CASE token.type = "dot" ->
              LET p == advance(tokens, pos)
                  prop_token == current(tokens, p)
              IN IF prop_token.type # "identifier" THEN ParseRaise
                 ELSE parse_postfix_loop(tokens, advance(tokens, p),
                          MemberExpressionNode(node, IdentifierNode(prop_token.value.v), FALSE))
         [] token.type = "bracket_open" ->
              LET property_expr == parse_expression(tokens, advance(tokens, pos), 0)
              IN IF property_expr.err THEN ParseRaise
                 ELSE IF current(tokens, property_expr.pos).type # "bracket_close"
                 THEN ParseRaise
                 ELSE parse_postfix_loop(tokens, advance(tokens, property_expr.pos),
                          MemberExpressionNode(node, property_expr.node, TRUE))
         [] token.type = "paren_open" ->
              LET arguments == parse_arguments(tokens, advance(tokens, pos))
              IN IF arguments.err THEN ParseRaise
                 ELSE IF current(tokens, arguments.pos).type # "paren_close" THEN ParseRaise
                 ELSE parse_postfix_loop(tokens, advance(tokens, arguments.pos),
                          CallExpressionNode(node, arguments.node))
         [] OTHER -> ParseOk(node, pos)

\* ExpressionParser._parse_array after the first element: the comma loop, then `]`.
parse_array_loop(tokens, pos, elements) ==
    IF current(tokens, pos).type = "comma"
       /\ current(tokens, advance(tokens, pos)).type # "bracket_close"
    THEN LET e == parse_expression(tokens, advance(tokens, pos), 0)
         IN IF e.err THEN ParseRaise
            ELSE parse_array_loop(tokens, e.pos, Append(elements, e.node))
    ELSE LET p == IF current(tokens, pos).type = "comma" THEN advance(tokens, pos) ELSE pos
         IN IF current(tokens, p).type # "bracket_close" THEN ParseRaise
            ELSE ParseOk(ArrayExpressionNode(elements), advance(tokens, p))

\* ExpressionParser._parse_array (the current token is `[`)
parse_array(tokens, pos) ==
    LET p == advance(tokens, pos)
    IN IF current(tokens, p).type # "bracket_close"
       THEN LET e == parse_expression(tokens, p, 0)
            IN IF e.err THEN ParseRaise ELSE parse_array_loop(tokens, e.pos, <<e.node>>)
       ELSE ParseOk(ArrayExpressionNode(<<>>), advance(tokens, p))

\* ExpressionParser._parse_property; `node` of the outcome is the (key, value) pair.
parse_property(tokens, pos) ==
    LET token == current(tokens, pos)
    IN IF token.type \notin {"identifier", "string"} THEN ParseRaise
       ELSE LET p == advance(tokens, pos)
            IN IF current(tokens, p).type # "colon" THEN ParseRaise
               ELSE LET value == parse_expression(tokens, advance(tokens, p), 0)
                    IN IF value.err THEN ParseRaise
                       ELSE ParseOk([key |-> token.value.v, value |-> value.node], value.pos)

\* ExpressionParser._parse_object after the first property: the comma loop, then `}`.
parse_object_loop(tokens, pos, properties) ==
    IF current(tokens, pos).type = "comma"
       /\ current(tokens, advance(tokens, pos)).type # "brace_close"
    THEN LET q == parse_property(tokens, advance(tokens, pos))
         IN IF q.err THEN ParseRaise
            ELSE parse_object_loop(tokens, q.pos, Append(properties, q.node))
    ELSE LET p == IF current(tokens, pos).type = "comma" THEN advance(tokens, pos) ELSE pos
         IN IF current(tokens, p).type # "brace_close" THEN ParseRaise
            ELSE ParseOk(ObjectExpressionNode(properties), advance(tokens, p))

\* ExpressionParser._parse_object (the current token is `{`)
parse_object(tokens, pos) ==
    LET p == advance(tokens, pos)
    IN IF current(tokens, p).type # "brace_close"
       THEN LET q == parse_property(tokens, p)
            IN IF q.err THEN ParseRaise ELSE parse_object_loop(tokens, q.pos, <<q.node>>)
       ELSE ParseOk(ObjectExpressionNode(<<>>), advance(tokens, p))

\* ExpressionParser._parse_primary
parse_primary(tokens, pos) ==
    LET token == current(tokens, pos)
    IN CASE token.type \in {"number", "string", "boolean"} ->
              ParseOk(LiteralNode(token.value), advance(tokens, pos))
         [] token.type = "null" -> ParseOk(LiteralNode(VNull), advance(tokens, pos))
         [] token.type = "identifier" ->
              ParseOk(IdentifierNode(token.value.v), advance(tokens, pos))
         [] token.type = "paren_open" ->
              LET expr == parse_expression(tokens, advance(tokens, pos), 0)
              IN IF expr.err THEN ParseRaise
                 ELSE IF current(tokens, expr.pos).type # "paren_close" THEN ParseRaise
                 ELSE ParseOk(expr.node, advance(tokens, expr.pos))
         [] token.type = "bracket_open" -> parse_array(tokens, pos)
         [] token.type = "brace_open" -> parse_object(tokens, pos)
         [] OTHER -> ParseRaise

\* ExpressionParser.parse: ParseError when tokens remain after the expression.
parse(tokens) ==
    LET node == parse_expression(tokens, 0, 0)
    IN IF node.err THEN ParseRaise
       ELSE IF current(tokens, node.pos).type # "eof" THEN ParseRaise
       ELSE node

(***************************************************************************)
(* Registries                                                              *)
(***************************************************************************)

\* Engines that may be constructed during a run.
Engines == {"A", "B"}

\* Filter names: one built-in (registered globally at module load) and two free.
FilterNames == {"upper", "custom", "temp"}

\* Filter function objects.
FilterFuncs == {"upper_fn", "fn1", "fn2"}

\* Tag names: built-ins and one free name.
TagNames == {"If", "Else", "MyTag"}

\* Tag plugin objects.
TagPlugins == {"IfPlugin", "ElsePlugin", "P1", "P2"}

\* The number of registry operations of one run.
MaxOps == 4

\* dict.get(name): the value, or None when the key is absent.
dict_get(d, name) == IF name \in DOMAIN d THEN d[name] ELSE None

\* d[name] = value
dict_set(d, name, value) ==
    [k \in (DOMAIN d) \cup {name} |-> IF k = name THEN value ELSE d[k]]

\* d.pop(name, None)
dict_pop(d, name) == [k \in (DOMAIN d) \ {name} |-> d[k]]

\* d.update(other)
dict_update(d, other) ==
    [k \in (DOMAIN d) \cup (DOMAIN other) |-> IF k \in DOMAIN other THEN other[k] ELSE d[k]]

\* The empty dict.
EmptyDict == [k \in {} |-> None]

\* The empty dict, of values.
EmptyValueDict == [k \in {} |-> [t |-> "null"]]

\* A registry pair: the instance table and the class-level (global) table.
Tables(inst, glob) == [inst |-> inst, glob |-> glob]

\* FilterRegistry.register_global: cls._global_filters[name] = func
FilterRegistry_register_global(inst, glob, name, func) ==
    Tables(inst, dict_set(glob, name, func))

\* Mutant: register writes the class-level table too.
FilterRegistry_register_shared(inst, glob, name, func) ==
    Tables(dict_set(inst, name, func), dict_set(glob, name, func))

\* FilterRegistry.register: self._filters[name] = func
FilterRegistry_register(inst, glob, name, func) ==
    Tables(dict_set(inst, name, func), glob)

\* FilterRegistry.get with the class-level table consulted first.
FilterRegistry_get_global_first(inst, glob, name) ==
    IF dict_get(glob, name) # None THEN dict_get(glob, name) ELSE dict_get(inst, name)

\* FilterRegistry.get: self._filters.get(name) or self._global_filters.get(name)
\* (function objects are truthy, so `or` falls through only on None).
FilterRegistry_get(inst, glob, name) ==
    IF dict_get(inst, name) # None THEN dict_get(inst, name) ELSE dict_get(glob, name)

\* FilterRegistry.remove: self._filters.pop(name, None)
FilterRegistry_remove(inst, glob, name) == Tables(dict_pop(inst, name), glob)

\* FilterRegistry.copy_from_global: self._filters.update(self._global_filters)
FilterRegistry_copy_from_global(inst, glob) == Tables(dict_update(inst, glob), glob)

\* TagPluginRegistry.register_global: for name in names: cls._global_plugins[name] = plugin
TagPluginRegistry_register_global(inst, glob, plugin, names) ==
    Tables(inst, dict_update(glob, [k \in names |-> plugin]))

\* TagPluginRegistry.register: for name in names: self._plugins[name] = plugin
TagPluginRegistry_register(inst, glob, plugin, names) ==
    Tables(dict_update(inst, [k \in names |-> plugin]), glob)

\* TagPluginRegistry.get: self._plugins.get(name) or self._global_plugins.get(name)
TagPluginRegistry_get(inst, glob, name) ==
    IF dict_get(inst, name) # None THEN dict_get(inst, name) ELSE dict_get(glob, name)

\* TagPluginRegistry.remove: self._plugins.pop(name, None)
TagPluginRegistry_remove(inst, glob, name) == Tables(dict_pop(inst, name), glob)

\* TagPluginRegistry.copy_from_global: self._plugins.update(self._global_plugins)
TagPluginRegistry_copy_from_global(inst, glob) == Tables(dict_update(inst, glob), glob)

(***************************************************************************)
(* Scope                                                                   *)
(***************************************************************************)

\* A Scope object: its _variables, the identity of the map it holds as _shared
\* (an index into the heap's maps) and its _parent (0 for None).
ScopeObj(variables, shared, parent) ==
    [variables |-> variables, shared |-> shared, parent |-> parent]

\* The objects of one transform call: the Scope objects and the shared maps.
Heap(scopes, maps) == [scopes |-> scopes, maps |-> maps]

RECURSIVE Scope_get_shared_first(_, _, _)
\* Scope.get with the shared map consulted before the parent chain.
Scope_get_shared_first(heap, sid, key) ==
    LET self == heap.scopes[sid]
    IN IF key \in DOMAIN self.variables THEN self.variables[key]
       ELSE IF key \in DOMAIN heap.maps[self.shared] THEN heap.maps[self.shared][key]
       ELSE IF self.parent # 0 THEN Scope_get_shared_first(heap, self.parent, key)
       ELSE VNull

RECURSIVE Scope_get(_, _, _)
\* Scope.get
Scope_get(heap, sid, key) ==
    LET self == heap.scopes[sid]
    IN IF key \in DOMAIN self.variables THEN self.variables[key]
       ELSE IF self.parent # 0 THEN Scope_get(heap, self.parent, key)
       ELSE IF key \in DOMAIN heap.maps[self.shared] THEN heap.maps[self.shared][key]
       ELSE VNull

\* Scope.get_local
Scope_get_local(heap, sid, key) ==
    LET self == heap.scopes[sid]
    IN IF key \in DOMAIN self.variables THEN self.variables[key] ELSE VNull

\* Scope.get_shared
Scope_get_shared(heap, sid, key) ==
    LET m == heap.maps[heap.scopes[sid].shared]
    IN IF key \in DOMAIN m THEN m[key] ELSE VNull

RECURSIVE Outermost(_, _)
\* The Scope at the top of the parent chain of a Scope.
Outermost(heap, sid) ==
    IF heap.scopes[sid].parent = 0 THEN sid ELSE Outermost(heap, heap.scopes[sid].parent)

\* set_local writing the variables of the outermost enclosing Scope.
Scope_set_local_outermost(heap, sid, key, value) ==
    [heap EXCEPT !.scopes[Outermost(heap, sid)].variables = dict_set(@, key, value)]

\* Scope.set_local
Scope_set_local(heap, sid, key, value) ==
    [heap EXCEPT !.scopes[sid].variables = dict_set(@, key, value)]

\* Scope.set_shared
Scope_set_shared(heap, sid, key, value) ==
    [heap EXCEPT !.maps[heap.scopes[sid].shared] = dict_set(@, key, value)]

\* Scope.create_child with the child given a copy of the shared map.
Scope_create_child_copy(heap, sid, variables) ==
    [heap EXCEPT !.scopes = Append(@, ScopeObj(variables, Len(heap.maps) + 1, sid)),
                 !.maps = Append(@, heap.maps[heap.scopes[sid].shared])]

\* Scope.create_child: the heap with the new Scope; its id is Len(scopes) + 1.
Scope_create_child(heap, sid, variables) ==
    [heap EXCEPT !.scopes = Append(@, ScopeObj(variables, heap.scopes[sid].shared, sid))]

(***************************************************************************)
(* Python value semantics used by the evaluator                            *)
(***************************************************************************)

\* bool(value)
Truthy(x) ==
    CASE x.t = "null" -> FALSE
      [] x.t = "bool" -> x.v
      [] x.t = "num" -> x.v # 0
      [] x.t = "str" -> x.v # ""
      [] x.t = "list" -> Len(x.v) > 0
      [] x.t = "dict" -> DOMAIN x.v # {}
      [] OTHER -> TRUE

\* isinstance(x, (int, float)): bool is a subclass of int.
IsNumber(x) == x.t \in {"num", "bool"}

\* isinstance(x, int)
IsInt(x) == x.t = "bool" \/ (x.t = "num" /\ ~x.f)

\* The numerator / denominator of a number (True is 1, False is 0).
Numer(x) == IF x.t = "bool" THEN (IF x.v THEN 1 ELSE 0) ELSE x.v

Denom(x) == IF x.t = "bool" THEN 1 ELSE x.d

RECURSIVE PyEq(_, _)
\* left == right
PyEq(a, b) ==
    CASE IsNumber(a) /\ IsNumber(b) -> Numer(a) * Denom(b) = Numer(b) * Denom(a)
      [] a.t = "list" /\ b.t = "list" ->
           Len(a.v) = Len(b.v) /\ \A i \in 1..Len(a.v) : PyEq(a.v[i], b.v[i])
      [] a.t = "dict" /\ b.t = "dict" ->
           DOMAIN a.v = DOMAIN b.v /\ \A key \in DOMAIN a.v : PyEq(a.v[key], b.v[key])
      [] OTHER -> a = b

\* The characters of the model's strings in code-point order.
CharOrder == " 0123456789ABCDEFGHIJKLMNOPQRSTUVWXYZ_abcdefghijklmnopqrstuvwxyz"

\* The rank of a character in code-point order.
Ord(c) ==
    IF \E i \in 1..Len(CharOrder) : SubSeq(CharOrder, i, i) = c
    THEN CHOOSE i \in 1..Len(CharOrder) : SubSeq(CharOrder, i, i) = c
    ELSE 0

RECURSIVE StrLess(_, _)
\* a < b on str
StrLess(a, b) ==
    IF b = "" THEN FALSE
    ELSE IF a = "" THEN TRUE
    ELSE IF SubSeq(a, 1, 1) = SubSeq(b, 1, 1) THEN StrLess(Tail(a), Tail(b))
    ELSE Ord(SubSeq(a, 1, 1)) < Ord(SubSeq(b, 1, 1))

\* The outcome of an evaluation: the exception raised ("none" if it returned),
\* the value returned, and what the evaluation did (filter lookups and calls,
\* reads of a member-access base), in order.
Returned(value, trace) == [exc |-> "none", v |-> value, trace |-> trace]

Raised(exc, trace) == [exc |-> exc, v |-> VNull, trace |-> trace]

Event(ev, what) == [ev |-> ev, what |-> what]

\* left < right
PyLess(a, b, trace) ==
    CASE IsNumber(a) /\ IsNumber(b) ->
           Returned(VBool(Numer(a) * Denom(b) < Numer(b) * Denom(a)), trace)
      [] a.t = "str" /\ b.t = "str" -> Returned(VBool(StrLess(a.v, b.v)), trace)
      [] OTHER -> Raised("TypeError", trace)

RECURSIVE StrRepeat(_, _)
StrRepeat(str, n) == IF n <= 0 THEN "" ELSE str \o StrRepeat(str, n - 1)

\* floor(n / d) for d > 0
Floor(n, d) == IF n >= 0 THEN n \div d ELSE 0 - ((0 - n + d - 1) \div d)

\* The arithmetic operators +, -, *, /, % on evaluated operands.
PyArith(op, a, b, trace) ==
    LET isFloat == ~(IsInt(a) /\ IsInt(b))
        an == Numer(a)
        ad == Denom(a)
        bn == Numer(b)
        bd == Denom(b)
    IN CASE IsNumber(a) /\ IsNumber(b) /\ op \in {"/", "%"} /\ bn = 0 ->
              Raised("ZeroDivisionError", trace)
         [] IsNumber(a) /\ IsNumber(b) ->
              (CASE op = "+" -> Returned(VNum(an * bd + bn * ad, ad * bd, isFloat), trace)
                 [] op = "-" -> Returned(VNum(an * bd - bn * ad, ad * bd, isFloat), trace)
                 [] op = "*" -> Returned(VNum(an * bn, ad * bd, isFloat), trace)
                 [] op = "/" -> Returned(VNum(an * bd, ad * bn, TRUE), trace)
                 [] op = "%" ->
                      \* a - b * floor(a / b), the sign of the divisor
                      LET q == IF ad * bn > 0 THEN Floor(an * bd, ad * bn)
                               ELSE Floor(0 - an * bd, 0 - ad * bn)
                      IN Returned(VNum(an * bd - q * bn * ad, ad * bd, isFloat), trace))
         [] op = "+" /\ a.t = "str" /\ b.t = "str" -> Returned(VStr(a.v \o b.v), trace)
         [] op = "+" /\ a.t = "list" /\ b.t = "list" -> Returned(VList(a.v \o b.v), trace)
         [] op = "*" /\ a.t = "str" /\ IsInt(b) -> Returned(VStr(StrRepeat(a.v, Numer(b))), trace)
         [] op = "*" /\ IsInt(a) /\ b.t = "str" -> Returned(VStr(StrRepeat(b.v, Numer(a))), trace)
         [] op = "%" /\ a.t = "str" /\ b.t = "dict" -> Returned(a, trace)
         [] OTHER -> Raised("TypeError", trace)

\* str(n) for a natural number
RECURSIVE nat_str(_)
nat_str(n) ==
    IF n < 10 THEN SubSeq("0123456789", n + 1, n + 1)
    ELSE nat_str(n \div 10) \o SubSeq("0123456789", (n % 10) + 1, (n % 10) + 1)

\* str(n) for an int
int_str(n) == IF n < 0 THEN "-" \o nat_str(0 - n) ELSE nat_str(n)

\* The decimal digits of r / d (0 <= r < d) until the expansion ends, at most
\* left digits.
RECURSIVE fraction_digits(_, _, _)
fraction_digits(r, d, left) ==
    IF r = 0 \/ left = 0 THEN ""
    ELSE nat_str((r * 10) \div d) \o fraction_digits((r * 10) % d, d, left - 1)

\* str(x) for a float in positional notation (1e-4 <= |x| < 1e16)
float_str(n, d) ==
    LET a == Abs(n)
        frac == fraction_digits(a % d, d, 17)
    IN (IF n < 0 THEN "-" ELSE "") \o nat_str(a \div d) \o "."
           \o (IF frac = "" THEN "0" ELSE frac)

\* The keys of a dict below which no key is smaller, in increasing order.
RECURSIVE sorted_keys(_)
sorted_keys(keys) ==
    IF keys = {} THEN <<>>
    ELSE LET least == CHOOSE k \in keys : \A other \in keys \ {k} : StrLess(k, other)
         IN <<least>> \o sorted_keys(keys \ {least})

RECURSIVE json_dumps(_)
RECURSIVE json_join(_, _)

\* ", ".join of the rendered items
json_join(items, i) ==
    IF i > Len(items) THEN ""
    ELSE (IF i > 1 THEN ", " ELSE "") \o json_dumps(items[i]) \o json_join(items, i + 1)

RECURSIVE json_join_items(_, _, _)
\* ", ".join of the rendered key: value pairs (keys in increasing order)
json_join_items(d, keys, i) ==
    IF i > Len(keys) THEN ""
    ELSE (IF i > 1 THEN ", " ELSE "") \o "\"" \o keys[i] \o "\": " \o json_dumps(d[keys[i]])
             \o json_join_items(d, keys, i + 1)

\* json.dumps(value) on values whose strings need no escaping
json_dumps(x) ==
    CASE x.t = "null" -> "null"
      [] x.t = "bool" -> IF x.v THEN "true" ELSE "false"
      [] x.t = "num" -> IF x.f THEN float_str(x.v, x.d) ELSE int_str(x.v)
      [] x.t = "str" -> "\"" \o x.v \o "\""
      [] x.t = "list" -> "[" \o json_join(x.v, 1) \o "]"
      [] x.t = "dict" -> "{" \o json_join_items(x.v, sorted_keys(DOMAIN x.v), 1) \o "}"
      [] OTHER -> "<object>"

\* str.upper() on one ASCII character
UpperChar(c) ==
    IF Ord(c) >= Ord("a") THEN SubSeq(CharOrder, Ord(c) - 27, Ord(c) - 27) ELSE c

RECURSIVE StrUpper(_)
StrUpper(str) ==
    IF str = "" THEN "" ELSE UpperChar(SubSeq(str, 1, 1)) \o StrUpper(Tail(str))

\* str.lower() on one ASCII character
LowerChar(c) ==
    IF Ord(c) >= Ord("A") /\ Ord(c) <= Ord("Z")
    THEN SubSeq(CharOrder, Ord(c) + 27, Ord(c) + 27) ELSE c

RECURSIVE StrLower(_)
StrLower(str) ==
    IF str = "" THEN "" ELSE LowerChar(SubSeq(str, 1, 1)) \o StrLower(Tail(str))

\* value[:length] on str for an int length
str_prefix(str, length) ==
    IF length >= 0 THEN SubSeq(str, 1, IF length < Len(str) THEN length ELSE Len(str))
    ELSE SubSeq(str, 1, IF Len(str) + length > 0 THEN Len(str) + length ELSE 0)

RECURSIVE str_replace(_, _, _)
\* str.replace(search, replacement) for a search string that is not empty
str_replace(str, search, replacement) ==
    IF str = "" THEN ""
    ELSE IF Len(search) <= Len(str) /\ SubSeq(str, 1, Len(search)) = search
    THEN replacement \o str_replace(SubSeq(str, Len(search) + 1, Len(str)), search, replacement)
    ELSE SubSeq(str, 1, 1) \o str_replace(Tail(str), search, replacement)

RECURSIVE str_intersperse(_, _)
\* str.replace("", replacement): the replacement before every character and
\* at the end
str_intersperse(str, replacement) ==
    IF str = "" THEN replacement
    ELSE replacement \o SubSeq(str, 1, 1) \o str_intersperse(Tail(str), replacement)

RECURSIVE quote(_)
\* urllib.parse.quote(value, safe="") on the characters of CharOrder: letters,
\* digits and "_" are kept, the space is percent-encoded.
quote(str) ==
    IF str = "" THEN ""
    ELSE (IF SubSeq(str, 1, 1) = " " THEN "%20" ELSE SubSeq(str, 1, 1)) \o quote(Tail(str))

\* str(item) for None, a bool, a number or a str
py_str(x) ==
    CASE x.t = "null" -> "None"
      [] x.t = "bool" -> IF x.v THEN "True" ELSE "False"
      [] x.t = "num" -> IF x.f THEN float_str(x.v, x.d) ELSE int_str(x.v)
      [] x.t = "str" -> x.v
      [] OTHER -> "<object>"

RECURSIVE str_join(_, _, _)
\* separator.join(str(item) for item in value)
str_join(separator, items, i) ==
    IF i > Len(items) THEN ""
    ELSE (IF i > 1 THEN separator ELSE "") \o py_str(items[i]) \o str_join(separator, items, i + 1)

\* round(n / d) for d > 0: to the nearest int, a half to the even one
py_round(n, d) ==
    LET q == Floor(n, d)
        r == n - q * d
    IN IF 2 * r < d THEN q
       ELSE IF 2 * r > d THEN q + 1
       ELSE IF q % 2 = 0 THEN q ELSE q + 1

RECURSIVE pow(_, _)
\* base ** n for a natural n
pow(base, n) == IF n = 0 THEN 1 ELSE base * pow(base, n - 1)

\* filter_plugins.builtin.capitalize
capitalize(value, trace) ==
    IF value.t # "str" THEN Returned(value, trace)
    ELSE IF value.v = "" THEN Returned(value, trace)
    ELSE Returned(VStr(StrUpper(SubSeq(value.v, 1, 1)) \o Tail(value.v)), trace)

\* filter_plugins.builtin.upper
upper(value, trace) ==
    IF value.t # "str" THEN Returned(value, trace)
    ELSE Returned(VStr(StrUpper(value.v)), trace)

\* filter_plugins.builtin.lower
lower(value, trace) ==
    IF value.t # "str" THEN Returned(value, trace)
    ELSE Returned(VStr(StrLower(value.v)), trace)

\* filter_plugins.builtin.truncate: `len(value) <= length` needs a number,
\* `value[:length]` an int.
truncate(value, length, trace) ==
    IF value.t # "str" THEN Returned(value, trace)
    ELSE IF ~IsNumber(length) THEN Raised("TypeError", trace)
    ELSE IF Len(value.v) * Denom(length) <= Numer(length) THEN Returned(value, trace)
    ELSE IF ~IsInt(length) THEN Raised("TypeError", trace)
    ELSE Returned(VStr(str_prefix(value.v, Numer(length)) \o "..."), trace)

\* filter_plugins.builtin.abs_filter: abs(value)
abs_filter(value, trace) ==
    IF IsNumber(value)
    THEN Returned(VNum(Abs(Numer(value)), Denom(value), value.t = "num" /\ value.f), trace)
    ELSE Raised("TypeError", trace)

\* filter_plugins.builtin.join: a separator that is not a str has no join.
join(value, separator, trace) ==
    IF value.t # "list" THEN Returned(value, trace)
    ELSE IF separator.t # "str" THEN Raised("AttributeError", trace)
    ELSE Returned(VStr(str_join(separator.v, value.v, 1)), trace)

\* filter_plugins.builtin.round_filter for an int decimals: 10**decimals is an
\* int (a float when decimals < 0); value * multiplier is a number only when
\* value is one, and round() of a str or a list raises as None * multiplier does.
round_filter(value, decimals, trace) ==
    IF ~IsInt(decimals) THEN Raised("TypeError", trace)
    ELSE IF ~IsNumber(value) THEN Raised("TypeError", trace)
    ELSE LET up == IF Numer(decimals) >= 0 THEN pow(10, Numer(decimals)) ELSE 1
             down == IF Numer(decimals) >= 0 THEN 1 ELSE pow(10, 0 - Numer(decimals))
             rounded == py_round(Numer(value) * up, Denom(value) * down)
         IN IF PyEq(decimals, VInt(0)) THEN Returned(VInt(rounded), trace)
            ELSE Returned(VNum(rounded * down, up, TRUE), trace)

\* filter_plugins.builtin.replace
replace(value, search, replacement, trace) ==
    IF value.t # "str" THEN Returned(value, trace)
    ELSE IF search.t # "str" \/ replacement.t # "str" THEN Raised("TypeError", trace)
    ELSE IF search.v = "" THEN Returned(VStr(str_intersperse(value.v, replacement.v)), trace)
    ELSE Returned(VStr(str_replace(value.v, search.v, replacement.v)), trace)

\* filter_plugins.builtin.urlencode
urlencode(value, trace) ==
    IF value.t # "str" THEN Returned(value, trace)
    ELSE Returned(VStr(quote(value.v)), trace)

\* filter_plugins.builtin.dump: json.dumps(value)
dump(value, trace) ==
    IF value.t \in {"null", "bool", "num", "str", "list", "dict"}
    THEN Returned(VStr(json_dumps(value)), trace)
    ELSE Raised("TypeError", trace)

\* The numbers of positional arguments a filter function accepts.
Arity(func) ==
    CASE func \in {"truncate_fn"} -> {2}
      [] func \in {"join_fn", "round_fn"} -> {1, 2}
      [] func \in {"replace_fn"} -> {3}
      [] OTHER -> {1}

\* Calling a filter function object with (input_value, *rest_args): the
\* functions of BUILTIN_FILTERS; fn1 and fn2 are one-argument lambdas that
\* return a constant naming them.
filter_call(func, args, trace) ==
    IF Len(args) \notin Arity(func) THEN Raised("TypeError", trace)
    ELSE CASE func = "capitalize_fn" -> capitalize(args[1], trace)
           [] func = "upper_fn" -> upper(args[1], trace)
           [] func = "lower_fn" -> lower(args[1], trace)
           [] func = "truncate_fn" -> truncate(args[1], args[2], trace)
           [] func = "abs_fn" -> abs_filter(args[1], trace)
           [] func = "join_fn" ->
                join(args[1], IF Len(args) = 2 THEN args[2] ELSE VStr(", "), trace)
           [] func = "round_fn" ->
                round_filter(args[1], IF Len(args) = 2 THEN args[2] ELSE VInt(0), trace)
           [] func = "replace_fn" -> replace(args[1], args[2], args[3], trace)
           [] func = "urlencode_fn" -> urlencode(args[1], trace)
           [] func = "dump_fn" -> dump(args[1], trace)
           [] OTHER -> Returned(VStr(func), trace)

\* The attributes of a value that is neither dict nor list: hasattr(obj, prop).
has_attr(obj, prop) ==
    CASE obj.t = "obj" -> prop \in DOMAIN obj.v
      [] obj.t = "str" -> prop \in {"upper", "lower", "strip"}
      [] obj.t = "num" -> prop \in {"real", "imag"}
      [] OTHER -> FALSE

\* getattr(obj, prop) where hasattr(obj, prop)
get_attr(obj, prop) ==
    IF obj.t = "obj" THEN obj.v[prop] ELSE [t |-> "method", v |-> prop]

(***************************************************************************)
(* ExpressionEvaluator                                                     *)
(***************************************************************************)

\* What an evaluator is bound to: the heap and its Scope, and the filter
\* registry (instance table and class-level table).
Evaluator(heap, sid, finst, fglob) ==
    [heap |-> heap, sid |-> sid, finst |-> finst, fglob |-> fglob]

\* str.startswith("_")
StartsWithUnderscore(str) == Len(str) > 0 /\ SubSeq(str, 1, 1) = "_"

\* Mutant: the private-name check after the reads of the base.
evaluate_member_access_unchecked(obj, prop, trace) ==
    LET read == Append(trace, Event("read", IF prop.t = "str" THEN prop.v ELSE ""))
    IN CASE obj.t = "dict" ->
              IF prop.t \in {"list", "dict"} THEN Raised("TypeError", read)
              ELSE IF prop.t = "str" /\ StartsWithUnderscore(prop.v)
              THEN Raised("EvaluationError", read)
              ELSE IF prop.t = "str" /\ prop.v \in DOMAIN obj.v /\ obj.v[prop.v] # VNull
              THEN Returned(obj.v[prop.v], read)
              ELSE Returned(VStr(""), read)
         [] OTHER -> Raised("EvaluationError", read)

\* ExpressionEvaluator._evaluate_member once the base (not None) and the
\* property are evaluated: the private-name check, then dict / list / attribute.
evaluate_member_access(obj, prop, trace) ==
    LET read == Append(trace, Event("read", IF prop.t = "str" THEN prop.v ELSE ""))
    IN IF prop.t = "str" /\ StartsWithUnderscore(prop.v) THEN Raised("EvaluationError", trace)
       ELSE CASE obj.t = "dict" ->
                   IF prop.t \in {"list", "dict"} THEN Raised("TypeError", read)
                   ELSE IF prop.t = "str" /\ prop.v \in DOMAIN obj.v /\ obj.v[prop.v] # VNull
                   THEN Returned(obj.v[prop.v], read)
                   ELSE Returned(VStr(""), read)
              [] obj.t = "list" ->
                   IF IsInt(prop) /\ 0 <= Numer(prop) /\ Numer(prop) < Len(obj.v)
                   THEN Returned(obj.v[Numer(prop) + 1], read)
                   ELSE Returned(VStr(""), read)
              [] OTHER ->
                   IF prop.t # "str" THEN Raised("TypeError", read)
                   ELSE IF has_attr(obj, prop.v)
                   THEN (IF get_attr(obj, prop.v) = VNull THEN Returned(VStr(""), read)
                         ELSE Returned(get_attr(obj, prop.v), read))
                   ELSE Returned(VStr(""), read)

RECURSIVE evaluate_node(_, _, _)
RECURSIVE evaluate_list(_, _, _, _)
RECURSIVE evaluate_properties(_, _, _, _)

\* [self._evaluate_node(x) for x in nodes]: the values, or the first exception.
evaluate_list(ev, nodes, acc, trace) ==
    IF nodes = <<>> THEN Returned(VList(acc), trace)
    ELSE LET r == evaluate_node(ev, Head(nodes), trace)
         IN IF r.exc # "none" THEN r
            ELSE evaluate_list(ev, Tail(nodes), Append(acc, r.v), r.trace)

\* {key: self._evaluate_node(value) for key, value in node.properties}
evaluate_properties(ev, properties, acc, trace) ==
    IF properties = <<>> THEN Returned(VDict(acc), trace)
    ELSE LET r == evaluate_node(ev, Head(properties).value, trace)
         IN IF r.exc # "none" THEN r
            ELSE evaluate_properties(ev, Tail(properties),
                                     dict_set(acc, Head(properties).key, r.v), r.trace)

\* ExpressionEvaluator._evaluate_member
evaluate_member(ev, node, trace) ==
    LET obj == evaluate_node(ev, node.object, trace)
    IN IF obj.exc # "none" THEN obj
       ELSE IF obj.v = VNull THEN Returned(VStr(""), obj.trace)
       ELSE IF node.computed
       THEN LET prop == evaluate_node(ev, node.property, obj.trace)
            IN IF prop.exc # "none" THEN prop
               ELSE evaluate_member_access(obj.v, prop.v, prop.trace)
       ELSE IF node.property.k = "Identifier"
       THEN evaluate_member_access(obj.v, VStr(node.property.name), obj.trace)
       ELSE Raised("EvaluationError", obj.trace)

\* _evaluate_call taking the function from the Scope when the callee's name is
\* bound there.
evaluate_call_scope_first(ev, node, trace) ==
    IF node.callee.k # "Identifier" THEN Raised("EvaluationError", trace)
    ELSE LET function_name == node.callee.name
             held == Scope_get(ev.heap, ev.sid, function_name)
             filter_func == FilterRegistry_get(ev.finst, ev.fglob, function_name)
             looked == Append(trace, Event("lookup", function_name))
         IN IF held.t # "null"
            THEN Returned(VStr("called"), Append(trace, Event("call", "scope." \o function_name)))
            ELSE IF filter_func = None THEN Raised("EvaluationError", looked)
            ELSE LET args == evaluate_list(ev, node.arguments, <<>>, looked)
                 IN IF args.exc # "none" THEN args
                    ELSE IF Len(args.v.v) = 0 THEN Raised("EvaluationError", args.trace)
                    ELSE filter_call(filter_func, args.v.v,
                                     Append(args.trace, Event("call", function_name)))

\* ExpressionEvaluator._evaluate_call
evaluate_call(ev, node, trace) ==
    IF node.callee.k # "Identifier" THEN Raised("EvaluationError", trace)
    ELSE LET function_name == node.callee.name
             filter_func == FilterRegistry_get(ev.finst, ev.fglob, function_name)
             looked == Append(trace, Event("lookup", function_name))
         IN IF filter_func = None THEN Raised("EvaluationError", looked)
            ELSE LET args == evaluate_list(ev, node.arguments, <<>>, looked)
                 IN IF args.exc # "none" THEN args
                    ELSE IF Len(args.v.v) = 0 THEN Raised("EvaluationError", args.trace)
                    ELSE filter_call(filter_func, args.v.v,
                                     Append(args.trace, Event("call", function_name)))

\* _evaluate_binary with the right operand of && and || evaluated whatever the
\* left operand is.
evaluate_binary_eager(ev, node, trace) ==
    LET left == evaluate_node(ev, node.left, trace)
    IN IF left.exc # "none" THEN left
       ELSE IF node.operator = "&&"
       THEN (LET both == evaluate_node(ev, node.right, left.trace)
             IN IF both.exc # "none" \/ Truthy(left.v) THEN both
                ELSE Returned(left.v, both.trace))
       ELSE IF node.operator = "||"
       THEN (LET both == evaluate_node(ev, node.right, left.trace)
             IN IF both.exc # "none" \/ ~Truthy(left.v) THEN both
                ELSE Returned(left.v, both.trace))
       ELSE LET right == evaluate_node(ev, node.right, left.trace)
                op == node.operator
            IN IF right.exc # "none" THEN right
               ELSE CASE op \in {"+", "-", "*"} -> PyArith(op, left.v, right.v, right.trace)
                      [] op = "/" ->
                           IF PyEq(right.v, VInt(0)) THEN Raised("EvaluationError", right.trace)
                           ELSE PyArith(op, left.v, right.v, right.trace)
                      [] op = "%" ->
                           IF PyEq(right.v, VInt(0)) THEN Raised("EvaluationError", right.trace)
                           ELSE PyArith(op, left.v, right.v, right.trace)
                      [] op \in {"==", "==="} ->
                           Returned(VBool(PyEq(left.v, right.v)), right.trace)
                      [] op \in {"!=", "!=="} ->
                           Returned(VBool(~PyEq(left.v, right.v)), right.trace)
                      [] op = ">" -> PyLess(right.v, left.v, right.trace)
                      [] op = "<" -> PyLess(left.v, right.v, right.trace)
                      [] op = ">=" ->
                           LET lt == PyLess(left.v, right.v, right.trace)
                           IN IF lt.exc # "none" THEN lt
                              ELSE Returned(VBool(~lt.v.v), right.trace)
                      [] op = "<=" ->
                           LET gt == PyLess(right.v, left.v, right.trace)
                           IN IF gt.exc # "none" THEN gt
                              ELSE Returned(VBool(~gt.v.v), right.trace)
                      [] OTHER -> Raised("EvaluationError", right.trace)

\* _evaluate_binary without the test of the right operand of / and % against 0.
evaluate_binary_unchecked(ev, node, trace) ==
    LET left == evaluate_node(ev, node.left, trace)
    IN IF left.exc # "none" THEN left
       ELSE IF node.operator = "&&"
       THEN (IF ~Truthy(left.v) THEN left ELSE evaluate_node(ev, node.right, left.trace))
       ELSE IF node.operator = "||"
       THEN (IF Truthy(left.v) THEN left ELSE evaluate_node(ev, node.right, left.trace))
       ELSE LET right == evaluate_node(ev, node.right, left.trace)
                op == node.operator
            IN IF right.exc # "none" THEN right
               ELSE CASE op \in {"+", "-", "*"} -> PyArith(op, left.v, right.v, right.trace)
                      [] op = "/" ->
                           PyArith(op, left.v, right.v, right.trace)
                      [] op = "%" ->
                           PyArith(op, left.v, right.v, right.trace)
                      [] op \in {"==", "==="} ->
                           Returned(VBool(PyEq(left.v, right.v)), right.trace)
                      [] op \in {"!=", "!=="} ->
                           Returned(VBool(~PyEq(left.v, right.v)), right.trace)
                      [] op = ">" -> PyLess(right.v, left.v, right.trace)
                      [] op = "<" -> PyLess(left.v, right.v, right.trace)
                      [] op = ">=" ->
                           LET lt == PyLess(left.v, right.v, right.trace)
                           IN IF lt.exc # "none" THEN lt
                              ELSE Returned(VBool(~lt.v.v), right.trace)
                      [] op = "<=" ->
                           LET gt == PyLess(right.v, left.v, right.trace)
                           IN IF gt.exc # "none" THEN gt
                              ELSE Returned(VBool(~gt.v.v), right.trace)
                      [] OTHER -> Raised("EvaluationError", right.trace)

\* ExpressionEvaluator._evaluate_binary
evaluate_binary(ev, node, trace) ==
    LET left == evaluate_node(ev, node.left, trace)
    IN IF left.exc # "none" THEN left
       ELSE IF node.operator = "&&"
       THEN (IF ~Truthy(left.v) THEN left ELSE evaluate_node(ev, node.right, left.trace))
       ELSE IF node.operator = "||"
       THEN (IF Truthy(left.v) THEN left ELSE evaluate_node(ev, node.right, left.trace))
       ELSE LET right == evaluate_node(ev, node.right, left.trace)
                op == node.operator
            IN IF right.exc # "none" THEN right
               ELSE CASE op \in {"+", "-", "*"} -> PyArith(op, left.v, right.v, right.trace)
                      [] op = "/" ->
                           IF PyEq(right.v, VInt(0)) THEN Raised("EvaluationError", right.trace)
                           ELSE PyArith(op, left.v, right.v, right.trace)
                      [] op = "%" ->
                           IF PyEq(right.v, VInt(0)) THEN Raised("EvaluationError", right.trace)
                           ELSE PyArith(op, left.v, right.v, right.trace)
                      [] op \in {"==", "==="} ->
                           Returned(VBool(PyEq(left.v, right.v)), right.trace)
                      [] op \in {"!=", "!=="} ->
                           Returned(VBool(~PyEq(left.v, right.v)), right.trace)
                      [] op = ">" -> PyLess(right.v, left.v, right.trace)
                      [] op = "<" -> PyLess(left.v, right.v, right.trace)
                      [] op = ">=" ->
                           LET lt == PyLess(left.v, right.v, right.trace)
                           IN IF lt.exc # "none" THEN lt
                              ELSE Returned(VBool(~lt.v.v), right.trace)
                      [] op = "<=" ->
                           LET gt == PyLess(right.v, left.v, right.trace)
                           IN IF gt.exc # "none" THEN gt
                              ELSE Returned(VBool(~gt.v.v), right.trace)
                      [] OTHER -> Raised("EvaluationError", right.trace)

\* ExpressionEvaluator._evaluate_unary
evaluate_unary(ev, node, trace) ==
    LET argument == evaluate_node(ev, node.argument, trace)
    IN IF argument.exc # "none" THEN argument
       ELSE CASE node.operator = "!" -> Returned(VBool(~Truthy(argument.v)), argument.trace)
              [] node.operator = "-" ->
                   IF IsNumber(argument.v)
                   THEN Returned(VNum(0 - Numer(argument.v), Denom(argument.v),
                                      ~IsInt(argument.v)), argument.trace)
                   ELSE Raised("TypeError", argument.trace)
              [] node.operator = "+" ->
                   IF IsNumber(argument.v)
                   THEN Returned(VNum(Numer(argument.v), Denom(argument.v),
                                      ~IsInt(argument.v)), argument.trace)
                   ELSE Raised("TypeError", argument.trace)
              [] OTHER -> Raised("EvaluationError", argument.trace)

\* ExpressionEvaluator._evaluate_node
evaluate_node(ev, node, trace) ==
    CASE node.k = "Literal" -> Returned(node.value, trace)
      [] node.k = "Identifier" -> Returned(Scope_get(ev.heap, ev.sid, node.name), trace)
      [] node.k = "Member" -> evaluate_member(ev, node, trace)
      [] node.k = "Call" -> evaluate_call(ev, node, trace)
      [] node.k = "Binary" -> evaluate_binary(ev, node, trace)
      [] node.k = "Unary" -> evaluate_unary(ev, node, trace)
      [] node.k = "Array" -> evaluate_list(ev, node.elements, <<>>, trace)
      [] node.k = "Object" -> evaluate_properties(ev, node.properties, EmptyValueDict, trace)
      [] OTHER -> Raised("EvaluationError", trace)

RECURSIVE strip_left(_)
strip_left(str) ==
    IF str # "" /\ IsSpace(SubSeq(str, 1, 1)) THEN strip_left(Tail(str)) ELSE str

RECURSIVE strip_right(_)
strip_right(str) ==
    IF str # "" /\ IsSpace(SubSeq(str, Len(str), Len(str)))
    THEN strip_right(SubSeq(str, 1, Len(str) - 1))
    ELSE str

\* str.strip()
strip(str) == strip_right(strip_left(str))

\* ExpressionEvaluator.evaluate: only LexerError and ParseError are caught and
\* re-raised as EvaluationError; any other exception propagates as it is.
evaluate(ev, expression) ==
    The({ IF stripped = "" THEN Returned(VStr(""), <<>>)
          ELSE The({ IF lexed.exc = "LexerError" THEN Raised("EvaluationError", <<>>)
                     ELSE IF lexed.exc # "none" THEN Raised(lexed.exc, <<>>)
                     ELSE The({ IF parsed.err THEN Raised("EvaluationError", <<>>)
                                ELSE evaluate_node(ev, parsed.node, <<>>) :
                                parsed \in {parse(lexed.tokens)} }) :
                     lexed \in {tokenize(stripped)} }) :
          stripped \in {strip(expression)} })

(***************************************************************************)
(* AST nodes and node helpers                                              *)
(***************************************************************************)

\* constants.NODE_TYPES
NODE_TYPES ==
    [ TEXT |-> "text", PARAGRAPH |-> "paragraph", LIST |-> "list", LIST_ITEM |-> "listItem",
      MDX_TEXT_EXPRESSION |-> "mdxTextExpression", MDX_FLOW_EXPRESSION |-> "mdxFlowExpression",
      MDX_JSX_FLOW_ELEMENT |-> "mdxJsxFlowElement", MDX_JSX_TEXT_ELEMENT |-> "mdxJsxTextElement" ]

\* constants.MDX_JSX_ATTRIBUTE_TYPES
MDX_JSX_ATTRIBUTE_TYPES ==
    [ MDX_JSX_ATTRIBUTE |-> "mdxJsxAttribute",
      MDX_JSX_ATTRIBUTE_VALUE_EXPRESSION |-> "mdxJsxAttributeValueExpression",
      MDX_JSX_EXPRESSION_ATTRIBUTE |-> "mdxJsxExpressionAttribute" ]

\* node.get(key, default): a node is a function from the keys it holds.
node_get(node, key, default) == IF key \in DOMAIN node THEN node[key] ELSE default

\* A text node.
TextNode(value) == [type |-> NODE_TYPES.TEXT, value |-> value]

\* str.find(sub): the 0-based position of the first occurrence from pos, or -1.
RECURSIVE str_find(_, _, _)
str_find(str, sub, pos) ==
    IF pos + Len(sub) > Len(str) THEN 0 - 1
    ELSE IF SubSeq(str, pos + 1, pos + Len(sub)) = sub THEN pos
    ELSE str_find(str, sub, pos + 1)

\* str.startswith(prefix)
str_startswith(str, prefix) ==
    Len(str) >= Len(prefix) /\ SubSeq(str, 1, Len(prefix)) = prefix

\* str.endswith(suffix)
str_endswith(str, suffix) ==
    Len(str) >= Len(suffix) /\ SubSeq(str, Len(str) - Len(suffix) + 1, Len(str)) = suffix

\* str.strip(chars) for a set of characters
RECURSIVE str_strip_chars(_, _)
str_strip_chars(str, chars) ==
    IF str # "" /\ SubSeq(str, 1, 1) \in chars THEN str_strip_chars(Tail(str), chars)
    ELSE IF str # "" /\ SubSeq(str, Len(str), Len(str)) \in chars
    THEN str_strip_chars(SubSeq(str, 1, Len(str) - 1), chars)
    ELSE str

\* str.split(","): the pieces, in order.
RECURSIVE str_split_comma(_)
str_split_comma(str) ==
    LET at == str_find(str, ",", 0)
    IN IF at < 0 THEN <<str>>
       ELSE <<SubSeq(str, 1, at)>> \o str_split_comma(SubSeq(str, at + 2, Len(str)))

\* [p.strip() for p in parts if p.strip()]
RECURSIVE strip_nonempty(_)
strip_nonempty(parts) ==
    IF parts = <<>> THEN <<>>
    ELSE IF strip(Head(parts)) = "" THEN strip_nonempty(Tail(parts))
    ELSE <<strip(Head(parts))>> \o strip_nonempty(Tail(parts))

\* utils.stringify_value
stringify_value(x) ==
    CASE x.t = "null" -> ""
      [] x.t = "bool" -> IF x.v THEN "true" ELSE "false"
      [] x.t = "str" -> x.v
      [] x.t = "num" -> IF x.f THEN float_str(x.v, x.d) ELSE int_str(x.v)
      [] x.t \in {"list", "dict"} -> json_dumps(x)
      [] OTHER -> "<object>"

\* tag_plugin.is_mdx_jsx_element
is_mdx_jsx_element(node) ==
    node_get(node, "type", None)
        \in {NODE_TYPES.MDX_JSX_FLOW_ELEMENT, NODE_TYPES.MDX_JSX_TEXT_ELEMENT}

\* tag_plugin.is_parent_node
is_parent_node(node) == "children" \in DOMAIN node

\* tag_plugin.has_function_body
has_function_body(node) ==
    /\ node_get(node, "type", None)
           \in {NODE_TYPES.MDX_TEXT_EXPRESSION, NODE_TYPES.MDX_FLOW_EXPRESSION}
    /\ str_find(node_get(node, "value", ""), "=>", 0) >= 0

\* tag_plugin.get_function_body: (argument_names, body)
get_function_body(node) ==
    LET value == node_get(node, "value", "")
        arrow_pos == str_find(value, "=>", 0)
        params_part == strip(SubSeq(value, 1, arrow_pos))
        params_str == IF str_startswith(params_part, "(") /\ str_endswith(params_part, ")")
                      THEN SubSeq(params_part, 2, Len(params_part) - 1)
                      ELSE params_part
        argument_names == IF params_str # "" THEN strip_nonempty(str_split_comma(params_str))
                          ELSE <<>>
    IN IF arrow_pos < 0 THEN [argument_names |-> <<>>, body |-> <<>>]
       ELSE [argument_names |-> argument_names, body |-> node_get(node, "children", <<>>)]

RECURSIVE to_markdown(_)
RECURSIVE to_markdown_list_items(_)
RECURSIVE to_markdown_attrs(_, _)

\* The attribute parts of an element joined with " ".
to_markdown_attrs(attrs, i) ==
    IF i > Len(attrs) THEN ""
    ELSE LET attr == attrs[i]
             attr_name == node_get(attr, "name", "")
             attr_value == node_get(attr, "value", VNull)
             part == CASE attr_value.t = "null" -> attr_name
                       [] attr_value.t = "str" -> attr_name \o "=\"" \o attr_value.v \o "\""
                       [] OTHER -> attr_name \o "={" \o node_get(attr_value, "value", "") \o "}"
         IN (IF i > 1 THEN " " ELSE "") \o part \o to_markdown_attrs(attrs, i + 1)

\* "- " + to_markdown(item.children) for each item of a list node
to_markdown_list_items(items) ==
    IF items = <<>> THEN ""
    ELSE "- " \o to_markdown(node_get(Head(items), "children", <<>>))
             \o to_markdown_list_items(Tail(items))

\* tag_plugin.to_markdown
to_markdown(nodes) ==
    IF nodes = <<>> THEN ""
    ELSE LET node == Head(nodes)
             node_type == node_get(node, "type", "")
             children == node_get(node, "children", <<>>)
             tag_name == node_get(node, "name", "")
             attrs_str == to_markdown_attrs(node_get(node, "attributes", <<>>), 1)
             open == "<" \o tag_name \o (IF attrs_str # "" THEN " " \o attrs_str ELSE "")
             md == CASE node_type = NODE_TYPES.TEXT -> node_get(node, "value", "")
                     [] node_type = NODE_TYPES.PARAGRAPH -> to_markdown(children)
                     [] node_type \in {NODE_TYPES.MDX_TEXT_EXPRESSION,
                                       NODE_TYPES.MDX_FLOW_EXPRESSION} ->
                          "{" \o node_get(node, "value", "") \o "}"
                     [] node_type \in {NODE_TYPES.MDX_JSX_FLOW_ELEMENT,
                                       NODE_TYPES.MDX_JSX_TEXT_ELEMENT} ->
                          IF children # <<>>
                          THEN open \o ">" \o to_markdown(children) \o "</" \o tag_name \o ">"
                          ELSE open \o " />"
                     [] node_type = NODE_TYPES.LIST -> to_markdown_list_items(children)
                     [] node_type = NODE_TYPES.LIST_ITEM -> to_markdown(children)
                     [] OTHER -> IF is_parent_node(node) THEN to_markdown(children) ELSE ""
         IN md \o to_markdown(Tail(nodes))

(***************************************************************************)
(* NodeTransformer and the tag plugins                                     *)
(***************************************************************************)

\* The result of transforming a node: the exception raised ("none" if it
\* returned), whether a list of nodes or a single node was returned, the
\* node(s), the objects after the call and what the call did, in order.
XNodes(nodes, heap, trace) ==
    [exc |-> "none", list |-> TRUE, nodes |-> nodes, heap |-> heap, trace |-> trace]

XNode(node, heap, trace) ==
    [exc |-> "none", list |-> FALSE, nodes |-> <<node>>, heap |-> heap, trace |-> trace]

XRaise(exc, heap, trace) ==
    [exc |-> exc, list |-> TRUE, nodes |-> <<>>, heap |-> heap, trace |-> trace]

\* `name = dict(...)`, `name = {}` or `name = []`: the local variable of a
\* method is bound to an object made by this call.
New(trace, name) == Append(trace, Event("new", name))

\* `name[key] = ...`, `name.append(...)` or `name.extend(...)`: the object the
\* local variable is bound to is written in place.
Write(trace, name) == Append(trace, Event("write", name))

RECURSIVE Writes(_, _, _)
\* n writes in a row.
Writes(trace, name, n) == IF n = 0 THEN trace ELSE Writes(Write(trace, name), name, n - 1)

\* NodeTransformer.__init__: the Scope it is bound to and the registries of
\* the engine it was created for.
NodeTransformer(sid, tag_inst, tag_glob, finst, fglob) ==
    [sid |-> sid, tag_inst |-> tag_inst, tag_glob |-> tag_glob, finst |-> finst, fglob |-> fglob]

\* PluginContext.create_node_transformer(scope)
create_node_transformer(self, sid) == [self EXCEPT !.sid = sid]

\* self.evaluator.evaluate(expression), noting the expression evaluated.
transformer_evaluate(self, heap, expression, trace) ==
    The({ [r EXCEPT !.trace = trace \o <<Event("evaluate", expression)>> \o r.trace] :
          r \in {evaluate(Evaluator(heap, self.sid, self.finst, self.fglob), expression)} })

\* NodeTransformer._is_fragment_node
is_fragment_node(node) ==
    /\ is_mdx_jsx_element(node)
    /\ node_get(node, "name", None) \in {None, "", "Fragment", "React.Fragment"}

\* NodeTransformer._evaluate_expression_node
evaluate_expression_node(self, node, heap, trace) ==
    The({ IF r.exc # "none" THEN XRaise("ValueError", heap, r.trace)
          ELSE XNode(TextNode(stringify_value(r.v)), heap, r.trace) :
          r \in {transformer_evaluate(self, heap, node_get(node, "value", ""), trace)} })

RECURSIVE evaluate_props_loop(_, _, _, _, _, _)
\* The loop of NodeTransformer._evaluate_props over the attributes from i on.
evaluate_props_loop(self, node, heap, i, props, trace) ==
    LET attributes == node_get(node, "attributes", <<>>)
        attr == attributes[i]
        attr_type == node_get(attr, "type", "")
        name == node_get(attr, "name", "")
        value == node_get(attr, "value", VNull)
    IN IF i > Len(attributes) THEN [exc |-> "none", props |-> props, trace |-> trace]
       ELSE IF attr_type = MDX_JSX_ATTRIBUTE_TYPES.MDX_JSX_ATTRIBUTE
       THEN (CASE value.t = "null" ->
                    evaluate_props_loop(self, node, heap, i + 1,
                                        dict_set(props, name, VBool(TRUE)),
                                        Write(trace, "_evaluate_props.props"))
               [] value.t = "str" ->
                    evaluate_props_loop(self, node, heap, i + 1,
                                        dict_set(props, name, value),
                                        Write(trace, "_evaluate_props.props"))
               [] OTHER ->
                    IF node_get(value, "type", "")
                          = MDX_JSX_ATTRIBUTE_TYPES.MDX_JSX_ATTRIBUTE_VALUE_EXPRESSION
                    THEN The({ IF r.exc # "none"
                               THEN [exc |-> r.exc, props |-> props, trace |-> r.trace]
                               ELSE evaluate_props_loop(self, node, heap, i + 1,
                                        dict_set(props, name, r.v),
                                        Write(r.trace, "_evaluate_props.props")) :
                               r \in {transformer_evaluate(self, heap,
                                          node_get(value, "value", ""), trace)} })
                    ELSE evaluate_props_loop(self, node, heap, i + 1, props, trace))
       ELSE IF attr_type = MDX_JSX_ATTRIBUTE_TYPES.MDX_JSX_EXPRESSION_ATTRIBUTE
       THEN [exc |-> "ValueError", props |-> props, trace |-> trace]
       ELSE evaluate_props_loop(self, node, heap, i + 1, props, trace)

\* NodeTransformer._evaluate_props
evaluate_props(self, node, heap, trace) ==
    evaluate_props_loop(self, node, heap, 1, EmptyValueDict,
                        New(trace, "_evaluate_props.props"))

\* props.get(key, default)
props_get(props, key, default) == IF key \in DOMAIN props THEN props[key] ELSE default

\* ForEachPlugin._are_all_list_items over the flattened results
are_all_list_items(nodes) ==
    \A i \in 1..Len(nodes) :
        node_get(nodes[i], "type", "") \in {NODE_TYPES.LIST, NODE_TYPES.LIST_ITEM}

\* _collect_list_items keeping the list items produced and dropping the
\* children of the lists produced.
collect_list_items_top(nodes) ==
    SelectSeq(nodes, LAMBDA node : node_get(node, "type", "") = NODE_TYPES.LIST_ITEM)

RECURSIVE collect_list_items(_)
\* ForEachPlugin._collect_list_items over the flattened results
collect_list_items(nodes) ==
    IF nodes = <<>> THEN <<>>
    ELSE LET node == Head(nodes)
             node_type == node_get(node, "type", "")
         IN (CASE node_type = NODE_TYPES.LIST -> node_get(node, "children", <<>>)
               [] node_type = NODE_TYPES.LIST_ITEM -> <<node>>
               [] OTHER -> <<>>) \o collect_list_items(Tail(nodes))

\* ForEachPlugin._extract_body_from_expression for a node without data.estree
extract_body_from_expression(node) ==
    LET value == node_get(node, "value", "")
        arrow_pos == str_find(value, "=>", 0)
        body_str == strip(SubSeq(value, arrow_pos + 3, Len(value)))
    IN IF arrow_pos < 0 THEN <<>>
       ELSE IF body_str # ""
       THEN << [type |-> NODE_TYPES.MDX_TEXT_EXPRESSION,
                value |-> str_strip_chars(body_str, {"{", "}"})] >>
       ELSE <<>>

\* The name under which instances.py stores the pending extractions.
EXTRACT_TEXT_PROMISES_KEY == "__agentmark-extractTextPromises"

MEDIA_PARTS_KEY == "__agentmark-mediaParts"

INSIDE_MESSAGE_TYPE_KEY == "__insideMessageType"

USER == "User"

\* The coroutine object SimpleTextPlugin._extract_text(children, tag_name, context)
Coroutine(children, tag_name, sid) ==
    [t |-> "coroutine", children |-> children, name |-> tag_name, sid |-> sid]

\* SimpleTextPlugin._add_coroutine_to_scope
add_coroutine_to_scope(coro, heap, sid, trace) ==
    LET promises == Scope_get_shared(heap, sid, EXTRACT_TEXT_PROMISES_KEY)
        shared == heap.scopes[sid].shared
    IN IF promises # VNull
       THEN [ heap |-> [heap EXCEPT !.maps[shared][EXTRACT_TEXT_PROMISES_KEY] =
                                        VList(Append(@.v, coro))],
              trace |-> trace ]
       ELSE [ heap |-> Scope_set_shared(heap, sid, EXTRACT_TEXT_PROMISES_KEY, VList(<<coro>>)),
              trace |-> Append(trace, Event("set_shared", EXTRACT_TEXT_PROMISES_KEY)) ]

RECURSIVE transform_node(_, _, _, _)
RECURSIVE transform_children(_, _, _, _, _)
RECURSIVE process_mdx_jsx_element(_, _, _, _)
RECURSIVE plugin_transform(_, _, _, _, _, _, _)
RECURSIVE for_each_items(_, _, _, _, _, _, _, _)
RECURSIVE transform_children_loop(_, _, _, _, _)

\* transform_children taking the siblings from the last to the first, the
\* output kept in document order.
transform_children_loop_backwards(self, children, results, heap, trace) ==
    IF children = <<>> THEN XNodes(results, heap, trace)
    ELSE The({ IF result.exc # "none" THEN result
               ELSE transform_children_loop(self, SubSeq(children, 1, Len(children) - 1),
                                            result.nodes \o results, result.heap,
                                            Write(result.trace, "transform_children.results")) :
               result \in {transform_node(self, children[Len(children)], heap, trace)} })

\* The loop of NodeTransformer.transform_children: results accumulates the
\* nodes so far.
transform_children_loop(self, children, results, heap, trace) ==
    IF children = <<>> THEN XNodes(results, heap, trace)
    ELSE The({ IF result.exc # "none" THEN result
               ELSE transform_children_loop(self, Tail(children), results \o result.nodes,
                                            result.heap,
                                            Write(result.trace, "transform_children.results")) :
               result \in {transform_node(self, Head(children), heap, trace)} })

\* NodeTransformer.transform_children, with `results = []` done
transform_children(self, children, results, heap, trace) ==
    transform_children_loop(self, children, results, heap,
                            New(trace, "transform_children.results"))

\* NodeTransformer.transform_node with the children assigned to the node it was
\* given, without the copy `new_node = dict(node)`.
transform_node_in_place(self, node, heap, trace) ==
    LET node_type == node_get(node, "type", "")
    IN IF node_type \in {NODE_TYPES.MDX_TEXT_EXPRESSION, NODE_TYPES.MDX_FLOW_EXPRESSION}
       THEN evaluate_expression_node(self, node, heap, trace)
       ELSE IF is_mdx_jsx_element(node)
       THEN process_mdx_jsx_element(self, node, heap, trace)
       ELSE IF is_fragment_node(node)
       THEN transform_children(self, node_get(node, "children", <<>>), <<>>, heap, trace)
       ELSE IF is_parent_node(node)
       THEN The({ IF r.exc # "none" THEN r
                  ELSE XNode([node EXCEPT !.children = r.nodes], r.heap,
                             Write(r.trace, "transform_node.node")) :
                  r \in {transform_children(self, node.children, <<>>, heap, trace)} })
       ELSE XNode(node, heap, trace)

\* NodeTransformer.transform_node with the new node built from the type and the
\* transformed children alone, instead of `dict(node)`.
transform_node_bare(self, node, heap, trace) ==
    LET node_type == node_get(node, "type", "")
    IN IF node_type \in {NODE_TYPES.MDX_TEXT_EXPRESSION, NODE_TYPES.MDX_FLOW_EXPRESSION}
       THEN evaluate_expression_node(self, node, heap, trace)
       ELSE IF is_mdx_jsx_element(node)
       THEN process_mdx_jsx_element(self, node, heap, trace)
       ELSE IF is_fragment_node(node)
       THEN transform_children(self, node_get(node, "children", <<>>), <<>>, heap, trace)
       ELSE IF is_parent_node(node)
       THEN The({ IF r.exc # "none" THEN r
                  ELSE XNode([type |-> node_type, children |-> r.nodes], r.heap,
                             Write(r.trace, "transform_node.new_node")) :
                  r \in {transform_children(self, node.children, <<>>, heap,
                                            New(trace, "transform_node.new_node"))} })
       ELSE XNode(node, heap, trace)

\* NodeTransformer.transform_node
transform_node(self, node, heap, trace) ==
    LET node_type == node_get(node, "type", "")
    IN IF node_type \in {NODE_TYPES.MDX_TEXT_EXPRESSION, NODE_TYPES.MDX_FLOW_EXPRESSION}
       THEN evaluate_expression_node(self, node, heap, trace)
       ELSE IF is_mdx_jsx_element(node)
       THEN process_mdx_jsx_element(self, node, heap, trace)
       ELSE IF is_fragment_node(node)
       THEN transform_children(self, node_get(node, "children", <<>>), <<>>, heap, trace)
       ELSE IF is_parent_node(node)
       THEN The({ IF r.exc # "none" THEN r
                  ELSE XNode([node EXCEPT !.children = r.nodes], r.heap,
                             Write(r.trace, "transform_node.new_node")) :
                  r \in {transform_children(self, node.children, <<>>, heap,
                                            New(trace, "transform_node.new_node"))} })
       ELSE XNode(node, heap, trace)

\* The loop of ForEachPlugin.transform over the items from index on.
for_each_items(self, arr, index, argument_names, body, results, heap, trace) ==
    IF index >= Len(arr) THEN XNodes(results, heap, trace)
    ELSE LET item_param_name == IF Len(argument_names) > 0 THEN argument_names[1] ELSE ""
             index_param_name == IF Len(argument_names) > 1 THEN argument_names[2] ELSE ""
             with_item == IF item_param_name # ""
                          THEN dict_set(EmptyValueDict, item_param_name, arr[index + 1])
                          ELSE EmptyValueDict
             child_vars == IF index_param_name # ""
                           THEN dict_set(with_item, index_param_name, VInt(index))
                           ELSE with_item
             child_heap == Scope_create_child(heap, self.sid, child_vars)
             item_transformer == create_node_transformer(self, Len(child_heap.scopes))
             bound == Writes(New(trace, "ForEachPlugin.transform.child_vars"),
                             "ForEachPlugin.transform.child_vars",
                             Cardinality(DOMAIN child_vars))
         IN The({ IF processed.exc # "none" THEN processed
                  ELSE for_each_items(self, arr, index + 1, argument_names, body,
                                      results \o processed.nodes, processed.heap,
                                      Write(processed.trace,
                                            "ForEachPlugin.transform.result_nodes_per_item")) :
                  processed \in {transform_children(item_transformer, body, <<>>,
                                                    child_heap, bound)} })

\* IfPlugin.transform; the context is the transformer (its Scope is
\* context.scope) and the tag name.
IfPlugin_transform(self, tag_name, props, children, heap, trace) ==
    LET condition == props_get(props, "condition", VBool(FALSE))
        set == Scope_set_local(heap, self.sid, "__condition_met", VBool(Truthy(condition)))
    IN IF Truthy(condition)
       THEN transform_children(create_node_transformer(self, self.sid), children,
                               <<>>, set, trace)
       ELSE XNodes(<<>>, set, trace)

\* ElseIfPlugin.transform
ElseIfPlugin_transform(self, tag_name, props, children, heap, trace) ==
    LET condition_met == Scope_get_local(heap, self.sid, "__condition_met")
        condition == props_get(props, "condition", VBool(FALSE))
    IN IF Truthy(condition_met) THEN XNodes(<<>>, heap, trace)
       ELSE IF Truthy(condition)
       THEN transform_children(create_node_transformer(self, self.sid), children, <<>>,
                Scope_set_local(heap, self.sid, "__condition_met", VBool(TRUE)), trace)
       ELSE XNodes(<<>>, heap, trace)

\* ElsePlugin.transform
ElsePlugin_transform(self, tag_name, props, children, heap, trace) ==
    IF Truthy(Scope_get_local(heap, self.sid, "__condition_met"))
    THEN XNodes(<<>>, heap, trace)
    ELSE transform_children(create_node_transformer(self, self.sid), children, <<>>,
                            heap, trace)

\* ForEachPlugin.transform
ForEachPlugin_transform(self, tag_name, props, children, heap, trace) ==
    LET arr == props_get(props, "arr", VList(<<>>))
        child_node == children[1]
        fn == get_function_body(child_node)
        body == IF fn.body = <<>> THEN extract_body_from_expression(child_node)
                ELSE fn.body
    IN IF arr.t # "list" THEN XNodes(<<>>, heap, trace)
       ELSE IF Len(children) # 1 THEN XRaise("ValueError", heap, trace)
       ELSE IF ~has_function_body(child_node) THEN XRaise("ValueError", heap, trace)
       ELSE The({ IF r.exc # "none" THEN r
                  ELSE IF are_all_list_items(r.nodes)
                  THEN XNodes(<< [type |-> NODE_TYPES.LIST, ordered |-> FALSE,
                                  spread |-> FALSE,
                                  children |-> collect_list_items(r.nodes)] >>,
                              r.heap,
                              Writes(New(r.trace, "ForEachPlugin._collect_list_items.items"),
                                     "ForEachPlugin._collect_list_items.items",
                                     Len(r.nodes)))
                  ELSE r :
                  r \in {for_each_items(self, arr.v, 0, fn.argument_names, body, <<>>,
                                        heap,
                                        New(trace,
                                            "ForEachPlugin.transform.result_nodes_per_item"))} })

\* RawPlugin.transform with the children transformed before they are rendered.
RawPlugin_transform_transforming(self, tag_name, props, children, heap, trace) ==
    The({ IF r.exc # "none" THEN r
          ELSE XNodes(<<TextNode(to_markdown(r.nodes))>>, r.heap, r.trace) :
          r \in {transform_children(create_node_transformer(self, self.sid), children,
                                    <<>>, heap, trace)} })

\* RawPlugin.transform
RawPlugin_transform(self, tag_name, props, children, heap, trace) ==
    XNodes(<<TextNode(to_markdown(children))>>, heap, trace)

\* SimpleTextPlugin.transform
SimpleTextPlugin_transform(self, tag_name, props, children, heap, trace) ==
    IF tag_name \in {None, ""} THEN XRaise("ValueError", heap, trace)
    ELSE The({ XNodes(<<>>, added.heap, added.trace) :
               added \in {add_coroutine_to_scope(Coroutine(children, tag_name, self.sid),
                                                 heap, self.sid, trace)} })

\* The coroutine object UserPlugin._extract_user_content(children, context, child_scope)
UserCoroutine(children, sid) ==
    [t |-> "coroutine", children |-> children, name |-> USER, sid |-> sid,
     method |-> "_extract_user_content"]

\* UserPlugin.transform
UserPlugin_transform(self, tag_name, props, children, heap, trace) ==
    LET child_scope == Len(heap.scopes) + 1
        inside == Scope_set_shared(Scope_create_child(heap, self.sid, EmptyValueDict),
                                   child_scope, INSIDE_MESSAGE_TYPE_KEY, VStr(USER))
    IN The({ XNodes(<<>>, added.heap, added.trace) :
             added \in {add_coroutine_to_scope(
                            UserCoroutine(children, child_scope), inside, self.sid,
                            Append(trace, Event("set_shared", INSIDE_MESSAGE_TYPE_KEY)))} })

\* MediaAttachmentPlugin._process_image_attachment: the parts after it, or the
\* exception.
process_image_attachment(props, media_parts) ==
    LET image == props_get(props, "image", VNull)
        mime_type == props_get(props, "mimeType", VNull)
        part == [k \in {"type", "image"} |-> IF k = "type" THEN VStr("image") ELSE image]
    IN IF image.t = "null" THEN [exc |-> "ValueError", parts |-> media_parts]
       ELSE [ exc |-> "none",
              parts |-> Append(media_parts,
                               VDict(IF Truthy(mime_type)
                                     THEN dict_set(part, "mimeType", mime_type) ELSE part)) ]

\* MediaAttachmentPlugin._process_file_attachment
process_file_attachment(props, media_parts) ==
    LET data == props_get(props, "data", VNull)
        mime_type == props_get(props, "mimeType", VNull)
    IN IF data.t = "null" \/ mime_type.t = "null"
       THEN [exc |-> "ValueError", parts |-> media_parts]
       ELSE [ exc |-> "none",
              parts |-> Append(media_parts,
                               VDict([k \in {"type", "data", "mimeType"} |->
                                         CASE k = "type" -> VStr("file")
                                           [] k = "data" -> data
                                           [] OTHER -> mime_type])) ]

\* MediaAttachmentPlugin.transform
MediaAttachmentPlugin_transform(self, tag_name, props, children, heap, trace) ==
    LET inside_type == Scope_get_shared(heap, self.sid, INSIDE_MESSAGE_TYPE_KEY)
        held == Scope_get_shared(heap, self.sid, MEDIA_PARTS_KEY)
        media_parts == IF Truthy(held) THEN held.v ELSE <<>>
        processed == CASE tag_name = "ImageAttachment" ->
                            process_image_attachment(props, media_parts)
                       [] tag_name = "FileAttachment" ->
                            process_file_attachment(props, media_parts)
                       [] OTHER -> [exc |-> "none", parts |-> media_parts]
    IN IF tag_name \in {None, ""} THEN XRaise("ValueError", heap, trace)
       ELSE IF ~(inside_type.t = "str" /\ inside_type.v = USER)
       THEN XRaise("ValueError", heap, trace)
       ELSE IF processed.exc # "none" THEN XRaise(processed.exc, heap, trace)
       ELSE XNodes(<<>>,
                   Scope_set_shared(heap, self.sid, MEDIA_PARTS_KEY, VList(processed.parts)),
                   Append(trace, Event("set_shared", MEDIA_PARTS_KEY)))

\* plugin.transform(props, children, context) of the plugin object found.
plugin_transform(plugin, self, tag_name, props, children, heap, trace) ==
    CASE plugin = "IfPlugin" -> IfPlugin_transform(self, tag_name, props, children, heap, trace)
      [] plugin = "ElseIfPlugin" ->
           ElseIfPlugin_transform(self, tag_name, props, children, heap, trace)
      [] plugin = "ElsePlugin" ->
           ElsePlugin_transform(self, tag_name, props, children, heap, trace)
      [] plugin = "ForEachPlugin" ->
           ForEachPlugin_transform(self, tag_name, props, children, heap, trace)
      [] plugin = "RawPlugin" ->
           RawPlugin_transform(self, tag_name, props, children, heap, trace)
      [] plugin = "SimpleTextPlugin" ->
           SimpleTextPlugin_transform(self, tag_name, props, children, heap, trace)
      [] plugin = "UserPlugin" ->
           UserPlugin_transform(self, tag_name, props, children, heap, trace)
      [] plugin = "MediaAttachmentPlugin" ->
           MediaAttachmentPlugin_transform(self, tag_name, props, children, heap, trace)
      [] OTHER -> XNodes(<<>>, heap, trace)

\* NodeTransformer._process_mdx_jsx_element: every exception leaves as ValueError.
process_mdx_jsx_element(self, node, heap, trace) ==
    LET tag_name == node_get(node, "name", "")
        plugin == TagPluginRegistry_get(self.tag_inst, self.tag_glob, tag_name)
        looked == Append(trace, Event("tag_lookup", tag_name))
        children == node_get(node, "children", <<>>)
        with_plugin ==
            The({ IF props.exc # "none" THEN XRaise(props.exc, heap, props.trace)
                  ELSE plugin_transform(plugin, self, tag_name, props.props, children, heap,
                                        props.trace) :
                  props \in {evaluate_props(self, node, heap, looked)} })
        without_plugin ==
            The({ IF r.exc # "none" THEN r
                  ELSE XNode([k \in DOMAIN node \cup {"children"} |->
                                 IF k = "children" THEN r.nodes ELSE node[k]],
                             r.heap, Write(r.trace, "_process_mdx_jsx_element.new_node")) :
                  r \in {transform_children(self, children, <<>>, heap,
                                            New(looked, "_process_mdx_jsx_element.new_node"))} })
    IN The({ IF result.exc # "none" THEN XRaise("ValueError", result.heap, result.trace)
             ELSE result :
             result \in {IF plugin # None THEN with_plugin ELSE without_plugin} })

\* NodeTransformer.transform
NodeTransformer_transform(self, tree, heap, trace) ==
    The({ IF result.exc # "none" THEN result
          ELSE IF result.list
          THEN XNode([type |-> "root", children |-> result.nodes], result.heap, result.trace)
          ELSE result :
          result \in {transform_node(self, tree, heap, trace)} })

\* What awaiting extractions gave: the exception raised ("none" if none) and
\* the fields extracted, in order.
Gathered(exc, fields) == [exc |-> exc, fields |-> fields]

\* Awaiting one extraction: SimpleTextPlugin._extract_text or
\* UserPlugin._extract_user_content, on the Scope the coroutine was made with.
\* The field extracted, the heap after it, or the exception.
extract(self, coro, heap, trace) ==
    The({ IF r.exc # "none" THEN [exc |-> r.exc, field |-> VNull, heap |-> r.heap]
          ELSE LET markdown == strip(to_markdown(r.nodes))
                   held == Scope_get_shared(r.heap, coro.sid, MEDIA_PARTS_KEY)
                   media_parts == IF Truthy(held) THEN held.v ELSE <<>>
                   content ==
                       IF "method" \in DOMAIN coro /\ media_parts # <<>>
                       THEN VList(<<VDict([k \in {"type", "text"} |->
                                             IF k = "type" THEN VStr("text")
                                             ELSE VStr(markdown)])>> \o media_parts)
                       ELSE VStr(markdown)
               IN [ exc |-> "none",
                    field |-> VDict([k \in {"content", "name"} |->
                                        IF k = "content" THEN content ELSE VStr(coro.name)]),
                    heap |-> r.heap ] :
          r \in {transform_children_loop(create_node_transformer(self, coro.sid),
                                         coro.children, <<>>, heap, trace)} })

RECURSIVE gather(_, _, _, _, _)
\* `await asyncio.gather(*extract_coros)`: the extractions run in order, none
\* suspends; what is no coroutine is rejected.
gather(self, coros, fields, heap, trace) ==
    IF coros = <<>> THEN [exc |-> "none", fields |-> fields, heap |-> heap]
    ELSE IF Head(coros).t # "coroutine"
    THEN [exc |-> "TypeError", fields |-> fields, heap |-> heap]
    ELSE The({ IF r.exc # "none" THEN [exc |-> r.exc, fields |-> fields, heap |-> r.heap]
               ELSE gather(self, Tail(coros), Append(fields, r.field), r.heap, trace) :
               r \in {extract(self, Head(coros), heap, trace)} })

\* The root Scope of TemplateDX.transform taken from the Scope objects that
\* exist already, when one does, instead of built for the call.
NewRootScope_reused(heap, variables, shared) ==
    IF heap.scopes # <<>> THEN [heap |-> heap, sid |-> 1]
    ELSE LET passed == IF shared.t = "dict" THEN Append(heap.maps, shared.v) ELSE heap.maps
             maps == IF Truthy(shared) THEN passed ELSE Append(passed, EmptyValueDict)
         IN [ heap |-> Heap(Append(heap.scopes, ScopeObj(variables, Len(maps), 0)), maps),
              sid |-> Len(heap.scopes) + 1 ]

\* `Scope(variables=variables, shared=shared or {})` in TemplateDX.transform,
\* among the objects of other calls: the heap with the new Scope (and the map
\* it holds) and the id of the Scope.
NewRootScope(heap, variables, shared) ==
    LET passed == IF shared.t = "dict" THEN Append(heap.maps, shared.v) ELSE heap.maps
        maps == IF Truthy(shared) THEN passed ELSE Append(passed, EmptyValueDict)
    IN [ heap |-> Heap(Append(heap.scopes, ScopeObj(variables, Len(maps), 0)), maps),
         sid |-> Len(heap.scopes) + 1 ]

\* TemplateDX.transform(tree, props, shared): the caller's map, when one is
\* passed, is maps[1]; the root Scope holds it only if `shared or {}` yields it.
TemplateDX_transform(tag_inst, tag_glob, finst, fglob, tree, props, shared) ==
    LET variables == [k \in {"props"} |-> IF Truthy(props) THEN props ELSE VDict(EmptyValueDict)]
        passed == IF shared.t = "dict" THEN <<shared.v>> ELSE <<>>
        maps == IF Truthy(shared) THEN passed ELSE Append(passed, EmptyValueDict)
        scope == ScopeObj(variables, Len(maps), 0)
        transformer == NodeTransformer(1, tag_inst, tag_glob, finst, fglob)
    IN NodeTransformer_transform(transformer, tree, Heap(<<scope>>, maps), <<>>)

\* The global filter table after register_builtin_filters() ran at module load.
BuiltinFilters ==
    [k \in {"capitalize", "upper", "lower", "truncate", "abs", "join", "round", "replace",
            "urlencode", "dump"} |-> k \o "_fn"]

\* The global tag table after _register_builtin_tag_plugins() ran at module load.
BuiltinTagPlugins == [k \in {"If", "ElseIf", "Else", "ForEach", "Raw"} |-> k \o "Plugin"]

VARIABLES
    global_filters,   \* FilterRegistry._global_filters
    global_plugins,   \* TagPluginRegistry._global_plugins
    constructed,      \* the engines constructed so far
    filters,          \* engine -> its FilterRegistry._filters
    plugins,          \* engine -> its TagPluginRegistry._plugins
    last,             \* the last operation performed and its arguments
    nops,             \* the number of operations performed
    expression,       \* the string handed to ExpressionEvaluator.evaluate
    scope_variables,  \* the variables of the Scope the evaluator is bound to
    outcome,          \* what evaluate did: returned value or exception, and its trace
    evaluated,        \* whether evaluate was called
    tree,             \* the AST handed to TemplateDX.transform
    props,            \* the props handed to it
    shared,           \* the map handed to it as shared (null for None)
    transformed,      \* what transform did: result or exception, objects, trace
    returned,         \* whether transform was called
    extracted,        \* what awaiting the extractions gave: fields or exception
    gathered,         \* whether the extractions were awaited
    scope_heap,       \* the Scope objects built directly and the maps they share
    scope_last,       \* the last Scope operation, its arguments and its result
    conc_heap,        \* the Scope objects and shared maps of the concurrent calls
    calls             \* call -> the arguments and the progress of a transform() call

registryVars == <<global_filters, global_plugins, constructed, filters, plugins, last, nops>>

evaluatorVars == <<expression, scope_variables, outcome, evaluated>>

transformVars == <<tree, props, shared, transformed, returned, extracted, gathered>>

scopeVars == <<scope_heap, scope_last>>

concurrentVars == <<conc_heap, calls>>

vars == <<registryVars, evaluatorVars, transformVars, scopeVars, concurrentVars>>

\* A Scope operation record: the method, the Scope it was called on, the key
\* and the value passed or returned.
ScopeOp(op, sid, key, value) == [op |-> op, sid |-> sid, key |-> key, value |-> value]

\* An operation record.
Op(op, e, name, obj) == [op |-> op, e |-> e, name |-> name, obj |-> obj]

\* TemplateDX.get_filter
get_filter(e, name) == FilterRegistry_get(filters[e], global_filters, name)

\* TemplateDX.get_tag_plugin
get_tag_plugin(e, name) == TagPluginRegistry_get(plugins[e], global_plugins, name)

Init ==
    /\ global_filters = BuiltinFilters
    /\ global_plugins = BuiltinTagPlugins
    /\ constructed = {}
    /\ filters = [e \in Engines |-> EmptyDict]
    /\ plugins = [e \in Engines |-> EmptyDict]
    /\ last = Op("init", None, None, None)
    /\ nops = 0
    /\ expression = ""
    /\ scope_variables = EmptyValueDict
    /\ outcome = Returned(VNull, <<>>)
    /\ evaluated = FALSE
    /\ tree = [type |-> "root", children |-> <<>>]
    /\ props = VNull
    /\ shared = VNull
    /\ transformed = XNodes(<<>>, Heap(<<>>, <<>>), <<>>)
    /\ returned = FALSE
    /\ extracted = Gathered("none", <<>>)
    /\ gathered = FALSE
    /\ scope_heap = Heap(<<>>, <<>>)
    /\ scope_last = ScopeOp("none", 0, None, VNull)
    /\ conc_heap = Heap(<<>>, <<>>)
    /\ calls = <<>>

\* TemplateDX.__init__: fresh registries, then copy_from_global on both.
Construct(e) ==
    /\ nops < MaxOps
    /\ e \notin constructed
    /\ constructed' = constructed \cup {e}
    /\ LET t == TagPluginRegistry_copy_from_global(EmptyDict, global_plugins)
           f == FilterRegistry_copy_from_global(EmptyDict, global_filters)
       IN /\ plugins' = [plugins EXCEPT ![e] = t.inst]
          /\ filters' = [filters EXCEPT ![e] = f.inst]
          /\ global_plugins' = t.glob
          /\ global_filters' = f.glob
    /\ last' = Op("construct", e, None, None)
    /\ nops' = nops + 1
    /\ UNCHANGED <<evaluatorVars, transformVars, scopeVars, concurrentVars>>

\* FilterRegistry.register_global(name, func), called on the class.
RegisterGlobalFilter(name, func) ==
    /\ nops < MaxOps
    /\ global_filters' = FilterRegistry_register_global(EmptyDict, global_filters, name, func).glob
    /\ last' = Op("register_global_filter", None, name, func)
    /\ nops' = nops + 1
    /\ UNCHANGED <<evaluatorVars, transformVars, scopeVars, concurrentVars>>
    /\ UNCHANGED <<global_plugins, constructed, filters, plugins>>

\* TagPluginRegistry.register_global(plugin, [name]), called on the class.
RegisterGlobalTag(name, plugin) ==
    /\ nops < MaxOps
    /\ global_plugins' =
         TagPluginRegistry_register_global(EmptyDict, global_plugins, plugin, {name}).glob
    /\ last' = Op("register_global_tag", None, name, plugin)
    /\ nops' = nops + 1
    /\ UNCHANGED <<evaluatorVars, transformVars, scopeVars, concurrentVars>>
    /\ UNCHANGED <<global_filters, constructed, filters, plugins>>

\* TemplateDX.register_filter
RegisterFilter(e, name, func) ==
    /\ nops < MaxOps
    /\ e \in constructed
    /\ LET r == FilterRegistry_register(filters[e], global_filters, name, func)
       IN /\ filters' = [filters EXCEPT ![e] = r.inst]
          /\ global_filters' = r.glob
    /\ last' = Op("register_filter", e, name, func)
    /\ nops' = nops + 1
    /\ UNCHANGED <<evaluatorVars, transformVars, scopeVars, concurrentVars>>
    /\ UNCHANGED <<global_plugins, constructed, plugins>>

\* TemplateDX.remove_filter
RemoveFilter(e, name) ==
    /\ nops < MaxOps
    /\ e \in constructed
    /\ LET r == FilterRegistry_remove(filters[e], global_filters, name)
       IN /\ filters' = [filters EXCEPT ![e] = r.inst]
          /\ global_filters' = r.glob
    /\ last' = Op("remove_filter", e, name, None)
    /\ nops' = nops + 1
    /\ UNCHANGED <<evaluatorVars, transformVars, scopeVars, concurrentVars>>
    /\ UNCHANGED <<global_plugins, constructed, plugins>>

\* TemplateDX.register_tag_plugin
RegisterTagPlugin(e, name, plugin) ==
    /\ nops < MaxOps
    /\ e \in constructed
    /\ LET r == TagPluginRegistry_register(plugins[e], global_plugins, plugin, {name})
       IN /\ plugins' = [plugins EXCEPT ![e] = r.inst]
          /\ global_plugins' = r.glob
    /\ last' = Op("register_tag_plugin", e, name, plugin)
    /\ nops' = nops + 1
    /\ UNCHANGED <<evaluatorVars, transformVars, scopeVars, concurrentVars>>
    /\ UNCHANGED <<global_filters, constructed, filters>>

\* TemplateDX.remove_tag_plugin
RemoveTagPlugin(e, name) ==
    /\ nops < MaxOps
    /\ e \in constructed
    /\ LET r == TagPluginRegistry_remove(plugins[e], global_plugins, name)
       IN /\ plugins' = [plugins EXCEPT ![e] = r.inst]
          /\ global_plugins' = r.glob
    /\ last' = Op("remove_tag_plugin", e, name, None)
    /\ nops' = nops + 1
    /\ UNCHANGED <<evaluatorVars, transformVars, scopeVars, concurrentVars>>
    /\ UNCHANGED <<global_filters, constructed, filters>>

Next ==
    \/ \E e \in Engines : Construct(e)
    \/ \E n \in FilterNames, f \in FilterFuncs : RegisterGlobalFilter(n, f)
    \/ \E n \in TagNames, p \in TagPlugins : RegisterGlobalTag(n, p)
    \/ \E e \in Engines, n \in FilterNames, f \in FilterFuncs : RegisterFilter(e, n, f)
    \/ \E e \in Engines, n \in FilterNames : RemoveFilter(e, n)
    \/ \E e \in Engines, n \in TagNames, p \in TagPlugins : RegisterTagPlugin(e, n, p)
    \/ \E e \in Engines, n \in TagNames : RemoveTagPlugin(e, n)

Spec == Init /\ [][Next]_vars

(***************************************************************************)
(* Registry claims                                                         *)
(***************************************************************************)

InstanceOps == {"register_filter", "remove_filter", "register_tag_plugin", "remove_tag_plugin"}

\* C1 (as claimed): a register_global made after an engine was constructed changes
\* no lookup of that engine (the late filter / plugin is not returned by its
\* get_filter / get_tag_plugin), while an engine constructed afterwards sees
\* every global entry.
C1_LateGlobalInvisible ==
    [][/\ last'.op = "register_global_filter" =>
             \A e \in constructed : \A n \in FilterNames : get_filter(e, n)' = get_filter(e, n)
       /\ last'.op = "register_global_tag" =>
             \A e \in constructed : \A n \in TagNames :
                 get_tag_plugin(e, n)' = get_tag_plugin(e, n)
       /\ (last'.op = "construct" /\ nops' # nops) =>
             /\ \A n \in DOMAIN global_filters :
                    FilterRegistry_get(filters'[last'.e], global_filters', n) = global_filters[n]
             /\ \A n \in DOMAIN global_plugins :
                    TagPluginRegistry_get(plugins'[last'.e], global_plugins', n)
                        = global_plugins[n]]_vars

\* C7 (as claimed): right after remove_filter(n) / remove_tag_plugin(n) the
\* engine's lookup of n returns None, for every name n.
C7_RemovedIsGone ==
    /\ last.op = "remove_filter" => get_filter(last.e, last.name) = None
    /\ last.op = "remove_tag_plugin" => get_tag_plugin(last.e, last.name) = None

\* C8: instance-level register / remove on one engine leave both global tables
\* and every lookup of every other constructed engine unchanged.
C8_InstanceOpsIsolated ==
    [][(last'.op \in InstanceOps /\ nops' # nops) =>
          /\ global_filters' = global_filters
          /\ global_plugins' = global_plugins
          /\ \A b \in constructed \ {last'.e} :
                /\ \A n \in FilterNames : get_filter(b, n)' = get_filter(b, n)
                /\ \A n \in TagNames : get_tag_plugin(b, n)' = get_tag_plugin(b, n)]_vars

\* C8 witness: engine A registered a filter that engine B, constructed
\* independently, does not resolve.
C8_Witness ==
    /\ last.op = "register_filter"
    /\ constructed = Engines
    /\ get_filter(last.e, last.name) = last.obj
    /\ \E b \in constructed \ {last.e} : get_filter(b, last.name) = None

(***************************************************************************)
(* Expression evaluation                                                   *)
(***************************************************************************)

\* The longest expression string drawn character by character.
MaxLen == 4

\* The characters those strings are made of.
Alphabet == {"0", "e", "-", "+", "a", ".", "_", " "}

RECURSIVE StringsUpTo(_)
\* Every string over Alphabet of at most n characters.
StringsUpTo(n) ==
    IF n = 0 THEN {""}
    ELSE LET shorter == StringsUpTo(n - 1)
         IN shorter \cup {str \o c : str \in shorter, c \in Alphabet}

\* The values the identifier b is bound to when a member access on b is evaluated.
Bases ==
    << VNull,
      VDict([key \in {"x", "_x", "__y", "_"} |-> VInt(7)]),
      VDict(EmptyValueDict),
      VList(<<VInt(1)>>),
      VList(<<>>),
      VStr("s"),
      VInt(3),
      VBool(TRUE),
      VObj([key \in {"x", "_x", "__y", "_"} |-> VInt(7)]) >>

\* The property names accessed.
PropNames == {"x", "_x", "__y", "_"}

\* The three ways of writing the access of property prop on b: dotted, computed
\* with a string literal, computed with an identifier bound to the name.
MemberExpressions(prop) == {"b." \o prop, "b[\"" \o prop \o "\"]", "b[k]"}

\* The values the identifier l is bound to as the left operand of an operator:
\* the falsy values and some truthy ones.
Operands ==
    << VNull, VBool(FALSE), VInt(0), VNum(0, 1, TRUE), VStr(""), VList(<<>>),
       VDict(EmptyValueDict),
       VBool(TRUE), VInt(1), VNum(1, 2, TRUE), VStr("s"), VList(<<VInt(0)>>),
       VDict([key \in {"x"} |-> VInt(0)]) >>

\* The right operands of && and ||: a call of an unregistered filter, a call of
\* a registered one, a call without arguments, a division by zero, a private
\* member access, an identifier.
LogicalRights == {"nope(l)", "upper(l)", "upper()", "l / 0", "l._x", "z"}

LogicalExpressions ==
    {"l " \o op \o " " \o right : op \in {"&&", "||"}, right \in LogicalRights}

\* The values the identifier r is bound to as a right operand equal to zero.
Zeros == << VInt(0), VNum(0, 1, TRUE), VBool(FALSE) >>

\* Divisions and remainders whose right operand is zero, bound or literal.
DivisionExpressions ==
    {"l " \o op \o " " \o right : op \in {"/", "%"}, right \in {"r", "0", "0.0", "-0"}}

\* The values the identifier l is bound to as the subject of a filter: the
\* operands above, longer strings, negative and fractional numbers, a list of
\* scalars.
FilterSubjects ==
    Operands \o
    << VStr("aB c"), VStr("a_a"), VInt(0 - 3), VNum(0 - 5, 2, TRUE), VNum(3, 2, TRUE),
       VNum(5, 4, TRUE), VList(<<VInt(1), VStr("a"), VNull, VBool(TRUE), VNum(1, 2, TRUE)>>) >>

\* The call of a filter on l with further arguments.
CallOf(name, extras) == name \o "(l" \o extras \o ")"

\* The calls of the built-in filters, with the arguments their signatures take:
\* n is bound to an int, s and r to strings.
FilterExpressions ==
    {CallOf(name, "") : name \in {"capitalize", "upper", "lower", "abs", "join", "round",
                                   "urlencode", "dump"}}
    \cup {CallOf("truncate", ", n"), CallOf("round", ", n"), CallOf("join", ", s"),
          CallOf("replace", ", s, r")}

\* Calls whose callee is not a bare identifier: a member, an element, the
\* result of a call.
NonIdentifierCalls == {"l.upper(l)", "l[0](l)", "upper(l)(l)", "props.upper(l)"}

\* Calls of a name that no filter is registered under: bound in the Scope or not.
UnregisteredCalls == {"nope(l)", "l(l)", "props(l)", "item(l)"}

\* Calls without arguments, of a registered name and of others.
EmptyCalls == {"upper()", "l()", "nope()"}

\* Calls of a registered name that the Scope binds too.
ShadowedCalls == {"upper(l)", "upper(upper)", "lower(upper(l))"}

CallExpressions == NonIdentifierCalls \cup UnregisteredCalls \cup EmptyCalls \cup ShadowedCalls

\* The values l, item and props.upper, and the variable named upper, are bound to.
CallOperands ==
    << VStr("s"), VStr("Ab"), VList(<<VStr("s")>>), VObj([key \in {"upper"} |-> VStr("x")]),
       VNull, VInt(0 - 1), VDict([key \in {"upper"} |-> VStr("x")]) >>

\* The binary operators, and one of each precedence level.
BinaryOperators ==
    {"||", "&&", "==", "!=", "===", "!==", "<", ">", "<=", ">=", "+", "-", "*", "/", "%"}

LevelOperators == {"||", "&&", "==", "<", "-", "*"}

\* Nothing or one unary operator before an operand.
UnaryPrefixes == {"", "!", "- "}

\* Two, three and four number literals joined by binary operators set off by
\* spaces, with unary operators before the operands.
OperatorExpressions ==
    {u \o "6 " \o op \o " " \o v \o "3" :
        op \in BinaryOperators, u \in UnaryPrefixes, v \in UnaryPrefixes}
    \cup {u \o "6 " \o op1 \o " " \o v \o "3 " \o op2 \o " " \o w \o "2" :
             op1 \in BinaryOperators, op2 \in BinaryOperators,
             u \in UnaryPrefixes, v \in {""}, w \in {""}}
    \cup {"6 " \o op1 \o " " \o v \o "3 " \o op2 \o " " \o w \o "2" :
             op1 \in BinaryOperators, op2 \in BinaryOperators,
             v \in UnaryPrefixes, w \in UnaryPrefixes}
    \cup {"6 " \o op1 \o " 3 " \o op2 \o " 2 " \o op3 \o " 1" :
             op1 \in LevelOperators, op2 \in LevelOperators, op3 \in LevelOperators}

\* The expressions whose values the precedence rules are stated with.
PrecedenceExamples == {"1 + 2 * 3", "(1 + 2) * 3", "10 - 3 - 2"}

\* The ways of writing a - b for number literals a and b.
MinusForm(a, b, form) ==
    CASE form = "a-b" -> int_str(a) \o "-" \o int_str(b)
      [] form = "a -b" -> int_str(a) \o " -" \o int_str(b)
      [] form = "a- b" -> int_str(a) \o "- " \o int_str(b)
      [] OTHER -> int_str(a) \o " - " \o int_str(b)

MinusForms == {"a-b", "a -b", "a- b", "a - b"}

MinusOperands == {0, 3, 12}

MinusExpressions ==
    {MinusForm(a, b, form) : a \in MinusOperands, b \in MinusOperands, form \in MinusForms}

\* The evaluator of engine A over a root Scope holding scope_variables.
EngineEvaluator ==
    Evaluator(Heap(<<ScopeObj(scope_variables, 1, 0)>>, <<EmptyValueDict>>), 1,
              filters["A"], global_filters)

\* Engine A is constructed; an expression and the Scope's variables are chosen.
InitEval ==
    /\ global_filters = BuiltinFilters
    /\ global_plugins = BuiltinTagPlugins
    /\ constructed = {"A"}
    /\ filters = [e \in Engines |-> IF e = "A" THEN BuiltinFilters ELSE EmptyDict]
    /\ plugins = [e \in Engines |-> IF e = "A" THEN BuiltinTagPlugins ELSE EmptyDict]
    /\ last = Op("construct", "A", None, None)
    /\ nops = 1
    /\ \/ /\ expression \in StringsUpTo(MaxLen)
          /\ scope_variables = [key \in {"a"} |-> VDict([q \in {"a", "_"} |-> VInt(0)])]
       \/ \E i \in DOMAIN Bases, prop \in PropNames :
             /\ expression \in MemberExpressions(prop)
             /\ scope_variables =
                    [key \in {"b", "k"} |-> IF key = "b" THEN Bases[i] ELSE VStr(prop)]
       \/ \E i \in DOMAIN Operands :
             /\ expression \in LogicalExpressions
             /\ scope_variables =
                    [key \in {"l", "z"} |-> IF key = "l" THEN Operands[i] ELSE VInt(0)]
       \/ \E i \in DOMAIN Operands, j \in DOMAIN Zeros :
             /\ expression \in DivisionExpressions
             /\ scope_variables =
                    [key \in {"l", "r"} |-> IF key = "l" THEN Operands[i] ELSE Zeros[j]]
       \/ /\ expression \in OperatorExpressions \cup PrecedenceExamples \cup MinusExpressions
          /\ scope_variables = EmptyValueDict
       \/ \E i, j \in DOMAIN CallOperands :
             /\ expression \in CallExpressions
             /\ scope_variables =
                    [key \in {"l", "item", "props", "upper"} |->
                        CASE key \in {"l", "item"} -> CallOperands[i]
                          [] key = "props" -> VDict([q \in {"upper"} |-> CallOperands[j]])
                          [] OTHER -> CallOperands[j]]
       \/ \E i \in DOMAIN FilterSubjects, n \in {0 - 1, 0, 1, 2}, str \in {"", "a", "_"} :
             /\ expression \in FilterExpressions
             /\ scope_variables =
                    [key \in {"l", "n", "s", "r"} |->
                        CASE key = "l" -> FilterSubjects[i]
                          [] key = "n" -> VInt(n)
                          [] key = "s" -> VStr(str)
                          [] OTHER -> VStr("_")]
    /\ outcome = Returned(VNull, <<>>)
    /\ evaluated = FALSE
    /\ tree = [type |-> "root", children |-> <<>>]
    /\ props = VNull
    /\ shared = VNull
    /\ transformed = XNodes(<<>>, Heap(<<>>, <<>>), <<>>)
    /\ returned = FALSE
    /\ extracted = Gathered("none", <<>>)
    /\ gathered = FALSE
    /\ scope_heap = Heap(<<>>, <<>>)
    /\ scope_last = ScopeOp("none", 0, None, VNull)
    /\ conc_heap = Heap(<<>>, <<>>)
    /\ calls = <<>>

\* ExpressionEvaluator.evaluate(expression)
Evaluate ==
    /\ ~evaluated
    /\ outcome' = evaluate(EngineEvaluator, expression)
    /\ evaluated' = TRUE
    /\ UNCHANGED <<registryVars, expression, scope_variables, transformVars, scopeVars,
                   concurrentVars>>

NextEval == Evaluate

SpecEval == InitEval /\ [][NextEval]_vars

\* C9 (as claimed): evaluate either returns a value or raises EvaluationError,
\* for every expression string.
C9_OnlyEvaluationError ==
    evaluated => outcome.exc \in {"none", "EvaluationError"}

\* The evaluation was a member access on b, written in one of the three ways,
\* of the property name bound to k.
IsMemberAccess ==
    /\ evaluated
    /\ DOMAIN scope_variables = {"b", "k"}
    /\ expression \in MemberExpressions(scope_variables["k"].v)

\* C10: a member access (dotted or computed) of a property whose name starts
\* with an underscore, on a base that is not null, raises EvaluationError and
\* nothing was read from the base; on a null base the access returns "".
C10_PrivateBlockedBeforeRead ==
    IsMemberAccess =>
        /\ (scope_variables["b"] # VNull /\ StartsWithUnderscore(scope_variables["k"].v)) =>
               /\ outcome.exc = "EvaluationError"
               /\ \A i \in 1..Len(outcome.trace) : outcome.trace[i].ev # "read"
        /\ scope_variables["b"] = VNull => outcome = Returned(VStr(""), <<>>)

\* C10 witness: the private name is a key the dict base holds, the access is
\* computed, and it raised.
C10_Witness ==
    /\ IsMemberAccess
    /\ expression = "b[k]"
    /\ scope_variables["b"].t = "dict"
    /\ scope_variables["k"].v = "_x"
    /\ "_x" \in DOMAIN scope_variables["b"].v
    /\ outcome.exc = "EvaluationError"

\* The evaluation was of l && right or l || right.
IsLogical ==
    /\ evaluated
    /\ DOMAIN scope_variables = {"l", "z"}

\* The operator of the expression evaluated, which follows "l ".
Operator == IF SubSeq(expression, 4, 4) = " " THEN SubSeq(expression, 3, 3)
            ELSE SubSeq(expression, 3, 4)

\* The left operand decides the result by itself.
LeftDecides ==
    \/ Operator = "&&" /\ ~Truthy(scope_variables["l"])
    \/ Operator = "||" /\ Truthy(scope_variables["l"])

\* C13: when the left operand of && is falsy (of || truthy) the right operand
\* is never evaluated: no filter is looked up or called, nothing is read, no
\* error of the right operand is raised, and the result is the left operand.
C13_ShortCircuit ==
    (IsLogical /\ LeftDecides) =>
        /\ outcome.exc = "none"
        /\ outcome.trace = <<>>
        /\ outcome.v.t = scope_variables["l"].t
        /\ outcome.v = scope_variables["l"]

\* C13 witness: 0 && nope(l), with nope unregistered, has returned 0.
C13_Witness ==
    /\ IsLogical
    /\ expression = "l && nope(l)"
    /\ scope_variables["l"].t = "num"
    /\ scope_variables["l"] = VInt(0)
    /\ outcome.exc = "none"
    /\ outcome.v.t = "num"
    /\ outcome.v = VInt(0)

\* The evaluation was of l / right or l % right with right equal to zero.
IsDivisionByZero ==
    /\ evaluated
    /\ DOMAIN scope_variables = {"l", "r"}

\* C14: for every left operand, / and % with a right operand equal to zero
\* raise EvaluationError and return no value.
C14_DivisionByZeroRaises ==
    IsDivisionByZero => outcome.exc = "EvaluationError"

\* C14 witness: a number was divided by a zero bound to r, and it raised.
C14_Witness ==
    /\ IsDivisionByZero
    /\ expression = "l / r"
    /\ scope_variables["l"].t = "num"
    /\ scope_variables["l"] = VInt(1)
    /\ scope_variables["r"].t = "num"
    /\ scope_variables["r"] = VNum(0, 1, TRUE)
    /\ outcome.exc = "EvaluationError"

(***************************************************************************)
(* Scopes                                                                  *)
(***************************************************************************)

\* The largest number of Scope objects built.
MaxScopes == 3

\* The keys read and written; "missing" is never written.
ScopeKeys == {"k", "missing"}

\* The values written.
ScopeValues == <<VInt(1), VNull>>

\* The variables a Scope is built with: None (an empty map) or a binding of k.
ScopeVariables == <<EmptyValueDict, [key \in {"k"} |-> VInt(1)]>>

\* The maps a root Scope is built with as shared: None or {} (an empty map of
\* its own), a map binding k.
ScopeShared == <<EmptyValueDict, [key \in {"k"} |-> VInt(2)]>>

\* Scope.__init__(variables, shared) without a parent, on an empty heap
InitScope ==
    /\ global_filters = BuiltinFilters
    /\ global_plugins = BuiltinTagPlugins
    /\ constructed = {}
    /\ filters = [e \in Engines |-> EmptyDict]
    /\ plugins = [e \in Engines |-> EmptyDict]
    /\ last = Op("init", None, None, None)
    /\ nops = 0
    /\ expression = ""
    /\ scope_variables = EmptyValueDict
    /\ outcome = Returned(VNull, <<>>)
    /\ evaluated = FALSE
    /\ tree = [type |-> "root", children |-> <<>>]
    /\ props = VNull
    /\ shared = VNull
    /\ transformed = XNodes(<<>>, Heap(<<>>, <<>>), <<>>)
    /\ returned = FALSE
    /\ extracted = Gathered("none", <<>>)
    /\ gathered = FALSE
    /\ \E i \in DOMAIN ScopeVariables, j \in DOMAIN ScopeShared :
           scope_heap = Heap(<<ScopeObj(ScopeVariables[i], 1, 0)>>, <<ScopeShared[j]>>)
    /\ scope_last = ScopeOp("Scope", 1, None, VNull)
    /\ conc_heap = Heap(<<>>, <<>>)
    /\ calls = <<>>

\* Scope(variables): another root, with a shared map of its own
ScopeNew(variables) ==
    /\ Len(scope_heap.scopes) < MaxScopes
    /\ scope_heap' = Heap(Append(scope_heap.scopes,
                                 ScopeObj(variables, Len(scope_heap.maps) + 1, 0)),
                          Append(scope_heap.maps, EmptyValueDict))
    /\ scope_last' = ScopeOp("Scope", Len(scope_heap.scopes) + 1, None, VNull)
    /\ UNCHANGED <<registryVars, evaluatorVars, transformVars, concurrentVars>>

\* sid.create_child(variables)
ScopeCreateChild(sid, variables) ==
    /\ Len(scope_heap.scopes) < MaxScopes
    /\ scope_heap' = Scope_create_child(scope_heap, sid, variables)
    /\ scope_last' = ScopeOp("create_child", sid, None, VNull)
    /\ UNCHANGED <<registryVars, evaluatorVars, transformVars, concurrentVars>>

\* sid.set_local(key, value)
ScopeSetLocal(sid, key, value) ==
    /\ scope_heap' = Scope_set_local(scope_heap, sid, key, value)
    /\ scope_last' = ScopeOp("set_local", sid, key, value)
    /\ UNCHANGED <<registryVars, evaluatorVars, transformVars, concurrentVars>>

\* sid.set_shared(key, value)
ScopeSetShared(sid, key, value) ==
    /\ scope_heap' = Scope_set_shared(scope_heap, sid, key, value)
    /\ scope_last' = ScopeOp("set_shared", sid, key, value)
    /\ UNCHANGED <<registryVars, evaluatorVars, transformVars, concurrentVars>>

\* sid.get(key)
ScopeGet(sid, key) ==
    /\ scope_last' = ScopeOp("get", sid, key, Scope_get(scope_heap, sid, key))
    /\ UNCHANGED <<registryVars, evaluatorVars, transformVars, scope_heap, concurrentVars>>

\* sid.get_shared(key)
ScopeGetShared(sid, key) ==
    /\ scope_last' = ScopeOp("get_shared", sid, key, Scope_get_shared(scope_heap, sid, key))
    /\ UNCHANGED <<registryVars, evaluatorVars, transformVars, scope_heap, concurrentVars>>

NextScope ==
    \/ ScopeNew(EmptyValueDict)
    \/ \E sid \in DOMAIN scope_heap.scopes, i \in DOMAIN ScopeVariables :
           ScopeCreateChild(sid, ScopeVariables[i])
    \/ \E sid \in DOMAIN scope_heap.scopes, i \in DOMAIN ScopeValues :
           ScopeSetLocal(sid, "k", ScopeValues[i])
    \/ \E sid \in DOMAIN scope_heap.scopes, i \in DOMAIN ScopeValues :
           ScopeSetShared(sid, "k", ScopeValues[i])
    \/ \E sid \in DOMAIN scope_heap.scopes, key \in ScopeKeys : ScopeGet(sid, key)
    \/ \E sid \in DOMAIN scope_heap.scopes, key \in ScopeKeys : ScopeGetShared(sid, key)

SpecScope == InitScope /\ [][NextScope]_vars

RECURSIVE Chain(_)
\* The chain self, parent, grandparent, ... of a Scope, as Scope ids.
Chain(sid) ==
    IF scope_heap.scopes[sid].parent = 0 THEN <<sid>>
    ELSE <<sid>> \o Chain(scope_heap.scopes[sid].parent)

\* The root of a Scope's chain.
RootOf(sid) == Chain(sid)[Len(Chain(sid))]

\* The positions on the chain of sid whose local map contains key.
Holders(sid, key) ==
    {i \in 1..Len(Chain(sid)) : key \in DOMAIN scope_heap.scopes[Chain(sid)[i]].variables}

\* Two values are the same value.
SameValue(a, b) == a.t = b.t /\ a = b

\* C15: get(key) returns the value of the nearest Scope on the chain self,
\* parent, grandparent, ... whose local map contains key; if none contains it,
\* the root's shared[key]; if that is absent too, null.  A local or parent
\* binding wins over a shared one.
C15_GetResolvesNearest ==
    scope_last.op = "get" =>
        LET sid == scope_last.sid
            key == scope_last.key
            nearest == CHOOSE i \in Holders(sid, key) : \A j \in Holders(sid, key) : i <= j
            root_shared == scope_heap.maps[scope_heap.scopes[RootOf(sid)].shared]
        IN SameValue(scope_last.value,
                     IF Holders(sid, key) # {}
                     THEN scope_heap.scopes[Chain(sid)[nearest]].variables[key]
                     ELSE IF key \in DOMAIN root_shared THEN root_shared[key]
                     ELSE VNull)

\* C15 witness: get on a grandchild returned the binding of its grandparent
\* although the shared map binds the key to another value.
C15_Witness ==
    /\ scope_last.op = "get"
    /\ scope_last.key = "k"
    /\ Len(Chain(scope_last.sid)) = 3
    /\ Holders(scope_last.sid, "k") = {3}
    /\ "k" \in DOMAIN scope_heap.maps[scope_heap.scopes[scope_last.sid].shared]
    /\ ~SameValue(scope_heap.maps[scope_heap.scopes[scope_last.sid].shared]["k"],
                  scope_last.value)

\* C16: the Scopes derived from one root through create_child hold the same
\* shared map: after set_shared(k, v) on one of them, get_shared(k) on every
\* one of them returns v, and get(k) returns v on every one whose chain has no
\* local binding of k.
C16_SharedMapIsOne ==
    scope_last.op = "set_shared" =>
        \A sid \in DOMAIN scope_heap.scopes :
            RootOf(sid) = RootOf(scope_last.sid) =>
                /\ SameValue(Scope_get_shared(scope_heap, sid, scope_last.key),
                             scope_last.value)
                /\ Holders(sid, scope_last.key) = {} =>
                       SameValue(Scope_get(scope_heap, sid, scope_last.key),
                                 scope_last.value)

\* C16 witness: set_shared was called on a grandchild and the root, which has
\* no local binding of the key, holds the value written.
C16_Witness ==
    /\ scope_last.op = "set_shared"
    /\ Len(Chain(scope_last.sid)) = 3
    /\ scope_last.value.t = "num"
    /\ Holders(RootOf(scope_last.sid), "k") = {}
    /\ SameValue(Scope_get(scope_heap, RootOf(scope_last.sid), "k"), scope_last.value)

(***************************************************************************)
(* Transformation                                                          *)
(***************************************************************************)

\* The longest list a ForEach iterates over.
MaxItems == 3

\* The largest number of role tags in a template.
MaxRoles == 3

\* An MDX JSX element with the attributes given as name -> expression.
Element(type, name, attributes, children) ==
    [type |-> type, name |-> name, attributes |-> attributes, children |-> children]

\* The attribute name={expression}
ExpressionAttribute(name, expr) ==
    [ type |-> MDX_JSX_ATTRIBUTE_TYPES.MDX_JSX_ATTRIBUTE, name |-> name,
      value |-> [ t |-> "node", type |-> MDX_JSX_ATTRIBUTE_TYPES.MDX_JSX_ATTRIBUTE_VALUE_EXPRESSION,
                  value |-> expr ] ]

FlowElement(name, attributes, children) ==
    Element(NODE_TYPES.MDX_JSX_FLOW_ELEMENT, name, attributes, children)

IfElement(condition, children) ==
    FlowElement("If", <<ExpressionAttribute("condition", condition)>>, children)

ElseIfElement(condition, children) ==
    FlowElement("ElseIf", <<ExpressionAttribute("condition", condition)>>, children)

ElseElement(children) == FlowElement("Else", <<>>, children)

ExpressionNode(value) == [type |-> NODE_TYPES.MDX_TEXT_EXPRESSION, value |-> value]

Root(children) == [type |-> "root", children |-> children]

\* What follows the marker text in a branch of a conditional: nothing, a nested
\* If, a nested If / Else.
Nested ==
    << <<>>,
       <<IfElement("props.n", <<TextNode("n")>>)>>,
       <<IfElement("props.n", <<TextNode("n")>>), ElseElement(<<TextNode("m")>>)>> >>

\* The siblings If, ElseIf, Else whose branches start with the markers A, B, C.
ConditionalRun(i, j, k) ==
    Root(<< IfElement("props.c1", <<TextNode("A")>> \o Nested[i]),
            ElseIfElement("props.c2", <<TextNode("B")>> \o Nested[j]),
            ElseElement(<<TextNode("C")>> \o Nested[k]) >>)

\* The conditions of the ElseIf that follows an If.
ElseIfConditions == {"props.c2", "nope(props.c2)", "props.c2 / 0"}

IfThenElseIf(condition) ==
    Root(<< IfElement("props.c1", <<TextNode("A")>>),
            ElseIfElement(condition, <<TextNode("B")>>) >>)

\* The names of a fragment: "" / None / no name key / "Fragment".
FragmentNames == {"", None, "<missing>", "Fragment"}

FragmentElement(type, name) ==
    IF name = "<missing>"
    THEN [type |-> type, attributes |-> <<>>,
          children |-> <<TextNode("A"), ExpressionNode("props.x")>>]
    ELSE Element(type, name, <<>>, <<TextNode("A"), ExpressionNode("props.x")>>)

AroundFragment(type, name) ==
    Root(<<TextNode("pre"), FragmentElement(type, name), TextNode("post")>>)

\* The bodies of the function child of a ForEach.
ForEachBodies == {"(item, index) => item", "(item, index) => index", "item => item"}

ForEachOver(body) ==
    Root(<< FlowElement("ForEach", <<ExpressionAttribute("arr", "props.items")>>,
                        <<[type |-> NODE_TYPES.MDX_FLOW_EXPRESSION, value |-> body]>>) >>)

\* The first n of the items iterated over.
Items(n) == SubSeq(<<VStr("a"), VStr("b"), VStr("c"), VStr("d"), VStr("e")>>, 1, n)

\* Templates of role tags, each holding one text.
RECURSIVE RoleSequences(_)
RoleSequences(n) ==
    IF n = 0 THEN {<<>>}
    ELSE LET shorter == RoleSequences(n - 1)
         IN shorter \cup {Append(roles, r) : roles \in shorter, r \in {"System", "Assistant"}}

RoleTemplate(roles) ==
    Root([i \in 1..Len(roles) |-> FlowElement(roles[i], <<>>, <<TextNode("hello")>>)])

\* The maps a caller passes as shared: None, the empty map, a map holding
\* another key, a map that already holds the promises list.
SharedMaps ==
    << VNull,
       VDict(EmptyValueDict),
       VDict([key \in {"other"} |-> VInt(1)]),
       VDict([key \in {EXTRACT_TEXT_PROMISES_KEY} |-> VList(<<VStr("earlier")>>)]) >>

\* The tag table of language_templatedx: the built-ins copied at construction
\* and the role tags System and Assistant registered on the instance.
LanguagePlugins ==
    LET text == TagPluginRegistry_register(BuiltinTagPlugins, BuiltinTagPlugins,
                                           "SimpleTextPlugin", {"System", "Assistant"})
        user == TagPluginRegistry_register(text.inst, text.glob, "UserPlugin", {USER})
    IN TagPluginRegistry_register(user.inst, user.glob, "MediaAttachmentPlugin",
                                  {"ImageAttachment", "FileAttachment"}).inst

BooleanProps(keys, on) == VDict([key \in keys |-> VBool(key \in on)])

\* The attribute name="value"
LiteralAttribute(name, value) ==
    [type |-> MDX_JSX_ATTRIBUTE_TYPES.MDX_JSX_ATTRIBUTE, name |-> name, value |-> VStr(value)]

ImageAttachment(image) ==
    FlowElement("ImageAttachment", <<LiteralAttribute("image", image)>>, <<>>)

FileAttachment(data) ==
    FlowElement("FileAttachment",
                <<LiteralAttribute("data", data), LiteralAttribute("mimeType", "m")>>, <<>>)

\* The elements a message template is made of: an attachment standing alone,
\* User elements with an image, with a file, with none and with two, a System
\* element holding an attachment.
MessageElements ==
    << ImageAttachment("a"),
       FlowElement(USER, <<>>, <<TextNode("u1"), ImageAttachment("b")>>),
       FlowElement(USER, <<>>, <<TextNode("u2"), FileAttachment("c")>>),
       FlowElement(USER, <<>>, <<TextNode("u3")>>),
       FlowElement("System", <<>>, <<TextNode("s"), ImageAttachment("d")>>),
       FlowElement(USER, <<>>, <<FileAttachment("e"), TextNode("u4"), ImageAttachment("f")>>) >>

\* The longest message template, in elements.
MaxElements == 3

RECURSIVE MessageTemplates(_)
\* The runs of at most n of those elements.
MessageTemplates(n) ==
    IF n = 0 THEN {<<>>}
    ELSE LET shorter == MessageTemplates(n - 1)
         IN shorter \cup {Append(elements, MessageElements[i]) :
                             elements \in shorter, i \in DOMAIN MessageElements}

ListItem(children) == [type |-> NODE_TYPES.LIST_ITEM, children |-> children]

List(ordered, children) ==
    [type |-> NODE_TYPES.LIST, ordered |-> ordered, spread |-> FALSE, children |-> children]

Paragraph(children) == [type |-> NODE_TYPES.PARAGRAPH, children |-> children]

\* The bodies of a ForEach over (item, index): a list item; an ordered list of
\* two items; a list item and a list; a list item and a paragraph; a
\* paragraph; a list item, after a paragraph in the second iteration only; a
\* list item in the second iteration only; a bare expression; nothing.
ListBodies ==
    << <<ListItem(<<ExpressionNode("item")>>)>>,
       <<List(TRUE, <<ListItem(<<TextNode("x")>>), ListItem(<<ExpressionNode("item")>>)>>)>>,
       <<ListItem(<<ExpressionNode("index")>>),
         List(FALSE, <<ListItem(<<ExpressionNode("item")>>)>>)>>,
       <<ListItem(<<ExpressionNode("item")>>), Paragraph(<<ExpressionNode("item")>>)>>,
       <<Paragraph(<<ExpressionNode("item")>>)>>,
       <<IfElement("index == 1", <<Paragraph(<<TextNode("p")>>)>>),
         ListItem(<<ExpressionNode("item")>>)>>,
       <<IfElement("index == 1", <<ListItem(<<ExpressionNode("item")>>)>>)>>,
       <<ExpressionNode("item")>>,
       <<>> >>

\* <ForEach arr={props.items}>{(item, index) => body}</ForEach>
ForEachBody(body) ==
    FlowElement("ForEach", <<ExpressionAttribute("arr", "props.items")>>,
                <<[type |-> NODE_TYPES.MDX_FLOW_EXPRESSION, value |-> "(item, index) =>",
                   children |-> body]>>)

\* The expression a sibling at position p evaluates, and the text it gives.
PositionExpression(p) == <<"props.a", "props.b", "props.c", "props.d">>[p]

PositionText(p) == <<"1", "2", "3", "4">>[p]

\* The props the runs of siblings are transformed with.
SiblingProps ==
    VDict([key \in {"a", "b", "c", "d", "on", "off", "items"} |->
              CASE key = "a" -> VStr("1") [] key = "b" -> VStr("2")
                [] key = "c" -> VStr("3") [] key = "d" -> VStr("4")
                [] key = "on" -> VBool(TRUE) [] key = "off" -> VBool(FALSE)
                [] OTHER -> VList(Items(2))])

\* The kinds of sibling.
SiblingKinds == {"text", "expression", "parent", "if", "skipped", "loop", "role"}

\* The sibling of a kind at position p: a text, an expression, a paragraph
\* around an expression and an element without plugin that holds one, an If
\* that renders an expression and a text, an If that renders nothing, a
\* ForEach of a text and the item, a System element around an expression.
Sibling(kind, p) ==
    CASE kind = "text" -> TextNode(PositionText(p))
      [] kind = "expression" -> ExpressionNode(PositionExpression(p))
      [] kind = "parent" ->
             Paragraph(<< ExpressionNode(PositionExpression(p)),
                          FlowElement("Box", <<>>, <<ExpressionNode(PositionExpression(p))>>) >>)
      [] kind = "if" ->
             IfElement("props.on", <<ExpressionNode(PositionExpression(p)), TextNode("t")>>)
      [] kind = "skipped" ->
             IfElement("props.off", <<ExpressionNode(PositionExpression(p))>>)
      [] kind = "loop" ->
             ForEachBody(<<TextNode(PositionText(p)), ExpressionNode("item")>>)
      [] OTHER -> FlowElement("System", <<>>, <<ExpressionNode(PositionExpression(p))>>)

RECURSIVE SiblingRuns(_)
\* The runs of at most n kinds.
SiblingRuns(n) ==
    IF n = 0 THEN {<<>>}
    ELSE LET shorter == SiblingRuns(n - 1)
         IN shorter \cup {Append(kinds, kind) : kinds \in shorter, kind \in SiblingKinds}

\* The children of the root for a run of kinds.
SiblingsOf(kinds) == [p \in 1..Len(kinds) |-> Sibling(kinds[p], p)]

\* The bodies of a ForEach that hold conditionals: an Else before an If; an
\* ElseIf and an Else without an If; an If on the index and its Else; an If
\* alone.
ConditionalBodies ==
    << <<ElseElement(<<TextNode("E")>>), IfElement("props.on", <<ExpressionNode("item")>>)>>,
       <<ElseIfElement("props.on", <<TextNode("EI")>>), ElseElement(<<TextNode("E")>>)>>,
       <<IfElement("index == 0", <<TextNode("A")>>), ElseElement(<<ExpressionNode("index")>>)>>,
       <<IfElement("props.on", <<ExpressionNode("item")>>)>> >>

\* What stands after the ForEach: nothing, an Else, an ElseIf, an ElseIf and an
\* Else, expressions naming the item and the index.
AfterLoop ==
    << <<>>,
       <<ElseElement(<<TextNode("after")>>)>>,
       <<ElseIfElement("props.on", <<TextNode("after")>>)>>,
       <<ElseIfElement("props.off", <<TextNode("no")>>), ElseElement(<<TextNode("after")>>)>>,
       <<ExpressionNode("item"), ExpressionNode("index")>> >>

\* The props of these templates: n items, a true and a false flag.
LoopProps(n) ==
    VDict([key \in {"items", "on", "off"} |->
              CASE key = "items" -> VList(Items(n))
                [] key = "on" -> VBool(TRUE)
                [] OTHER -> VBool(FALSE)])

\* The spread attribute {...props}
SpreadAttribute ==
    [type |-> MDX_JSX_ATTRIBUTE_TYPES.MDX_JSX_EXPRESSION_ATTRIBUTE, value |-> VStr("...props")]

\* The elements that carry a spread attribute: three with a plugin on the
\* engine, one ("Box") with none.
SpreadElementNames == {"If", "Raw", "System", "Box"}

\* The attribute lists that hold a spread attribute, alone or after another.
SpreadAttributeLists ==
    << <<SpreadAttribute>>,
       <<ExpressionAttribute("condition", "props.c1"), SpreadAttribute>> >>

WithSpread(name, attributes) ==
    Root(<<FlowElement(name, attributes, <<TextNode("A")>>)>>)

\* The child lists of a ForEach: none, a text, two functions, an expression
\* that is no function, one function.
ForEachChildren ==
    << <<>>,
       <<TextNode("A")>>,
       <<[type |-> NODE_TYPES.MDX_FLOW_EXPRESSION, value |-> "(item) => item"],
         [type |-> NODE_TYPES.MDX_FLOW_EXPRESSION, value |-> "(item) => item"]>>,
       <<ExpressionNode("props.x")>>,
       <<[type |-> NODE_TYPES.MDX_FLOW_EXPRESSION, value |-> "(item) => item"]>> >>

\* The values of arr: lists, a string, null, a number.
ForEachArrs == <<VList(Items(0)), VList(Items(1)), VStr("s"), VNull, VInt(1)>>

ForEachWith(children) ==
    Root(<<FlowElement("ForEach", <<ExpressionAttribute("arr", "props.items")>>, children)>>)

\* The largest number of nodes below the root of a tree without expressions
\* and elements.
MaxNodes == 3

\* A node of such a tree that has children.
PlainParents(children) ==
    { [type |-> NODE_TYPES.PARAGRAPH, children |-> children],
      [type |-> "heading", depth |-> 2, children |-> children] }

RECURSIVE PlainTrees(_)
RECURSIVE PlainForests(_)
\* The trees of exactly n nodes without expressions and elements.
PlainTrees(n) ==
    IF n = 1
    THEN {TextNode("a"), [type |-> "thematicBreak"]} \cup PlainParents(<<>>)
    ELSE UNION {PlainParents(children) : children \in PlainForests(n - 1)}

\* The sequences of such trees that hold n nodes in all.
PlainForests(n) ==
    IF n = 0 THEN {<<>>}
    ELSE UNION { {<<first>> \o rest : first \in PlainTrees(k), rest \in PlainForests(n - k)} :
                 k \in 1..n }

\* The children of a Raw element: texts, expressions that raise when
\* evaluated, elements with and without a plugin, a spread attribute, nesting.
RawChildren ==
    << <<>>,
       <<TextNode("A")>>,
       <<ExpressionNode("nope(props.x)")>>,
       <<ExpressionNode("props.x / 0")>>,
       <<TextNode("A"), ExpressionNode("props.x")>>,
       <<IfElement("props.x", <<TextNode("A")>>)>>,
       <<FlowElement("System", <<>>, <<TextNode("hello")>>)>>,
       <<FlowElement("Box", <<SpreadAttribute>>, <<ExpressionNode("props.x / 0")>>)>>,
       <<[type |-> NODE_TYPES.PARAGRAPH,
          children |-> <<TextNode("A"), ExpressionNode("nope(props.x)")>>]>>,
       <<FlowElement("Raw", <<>>, <<ExpressionNode("props.x")>>)>> >>

RawAround(children) == Root(<<FlowElement("Raw", <<>>, children)>>)

\* Engine A is language_templatedx; a tree, props and shared are chosen.
InitTransform ==
    /\ global_filters = BuiltinFilters
    /\ global_plugins = BuiltinTagPlugins
    /\ constructed = {"A"}
    /\ filters = [e \in Engines |-> IF e = "A" THEN BuiltinFilters ELSE EmptyDict]
    /\ plugins = [e \in Engines |-> IF e = "A" THEN LanguagePlugins ELSE EmptyDict]
    /\ last = Op("register_tag_plugin", "A", "System", "SimpleTextPlugin")
    /\ nops = 2
    /\ expression = ""
    /\ scope_variables = EmptyValueDict
    /\ outcome = Returned(VNull, <<>>)
    /\ evaluated = FALSE
    /\ \/ /\ \E i, j, k \in DOMAIN Nested : tree = ConditionalRun(i, j, k)
          /\ \E on \in SUBSET {"c1", "c2", "n"} : props = BooleanProps({"c1", "c2", "n"}, on)
          /\ shared = VNull
       \/ /\ \E condition \in ElseIfConditions : tree = IfThenElseIf(condition)
          /\ \E on \in SUBSET {"c1", "c2"} : props = BooleanProps({"c1", "c2"}, on)
          /\ shared = VNull
       \/ /\ \E name \in FragmentNames :
                \E type \in {NODE_TYPES.MDX_JSX_FLOW_ELEMENT, NODE_TYPES.MDX_JSX_TEXT_ELEMENT} :
                    tree = AroundFragment(type, name)
          /\ \E x \in {"v", "w"} : props = VDict([key \in {"x"} |-> VStr(x)])
          /\ shared = VNull
       \/ /\ \E body \in ForEachBodies : tree = ForEachOver(body)
          /\ \E n \in 0..MaxItems : props = VDict([key \in {"items"} |-> VList(Items(n))])
          /\ shared = VNull
       \/ /\ \E roles \in RoleSequences(MaxRoles) : tree = RoleTemplate(roles)
          /\ props = VDict(EmptyValueDict)
          /\ \E i \in DOMAIN SharedMaps : shared = SharedMaps[i]
       \/ /\ \E name \in SpreadElementNames : \E i \in DOMAIN SpreadAttributeLists :
                tree = WithSpread(name, SpreadAttributeLists[i])
          /\ \E on \in SUBSET {"c1"} : props = BooleanProps({"c1"}, on)
          /\ shared = VNull
       \/ /\ \E i \in DOMAIN ForEachChildren : tree = ForEachWith(ForEachChildren[i])
          /\ \E i \in DOMAIN ForEachArrs :
                props = VDict([key \in {"items", "x"} |->
                                  IF key = "items" THEN ForEachArrs[i] ELSE VStr("v")])
          /\ shared = VNull
       \/ /\ \E n \in 0..MaxNodes : \E children \in PlainForests(n) : tree = Root(children)
          /\ \E x \in {"", "v"} :
                props = IF x = "" THEN VDict(EmptyValueDict)
                        ELSE VDict([key \in {"x"} |-> VStr(x)])
          /\ \E i \in DOMAIN SharedMaps : shared = SharedMaps[i]
       \/ /\ \E i \in DOMAIN RawChildren : tree = RawAround(RawChildren[i])
          /\ props = VDict([key \in {"x"} |-> VStr("v")])
          /\ \E i \in 1..2 : shared = SharedMaps[i]
       \/ /\ \E i \in DOMAIN ListBodies : tree = Root(<<ForEachBody(ListBodies[i])>>)
          /\ \E n \in 0..MaxItems : props = VDict([key \in {"items"} |-> VList(Items(n))])
          /\ shared = VNull
       \/ /\ \E kinds \in SiblingRuns(MaxElements) \ {<<>>} : tree = Root(SiblingsOf(kinds))
          /\ props = SiblingProps
          /\ \E i \in {1, 3} : shared = SharedMaps[i]
       \/ /\ \E i \in DOMAIN ConditionalBodies : \E j \in DOMAIN AfterLoop :
                tree = Root(<<ForEachBody(ConditionalBodies[i])>> \o AfterLoop[j])
          /\ \E n \in 0..MaxItems : props = LoopProps(n)
          /\ shared = VNull
       \/ /\ \E elements \in MessageTemplates(MaxElements) \ {<<>>} : tree = Root(elements)
          /\ props = VDict([key \in {"m"} |-> VStr("v")])
          /\ shared = SharedMaps[3]
    /\ transformed = XNodes(<<>>, Heap(<<>>, <<>>), <<>>)
    /\ returned = FALSE
    /\ extracted = Gathered("none", <<>>)
    /\ gathered = FALSE
    /\ scope_heap = Heap(<<>>, <<>>)
    /\ scope_last = ScopeOp("none", 0, None, VNull)
    /\ conc_heap = Heap(<<>>, <<>>)
    /\ calls = <<>>

\* TemplateDX.transform(tree, props, shared) on engine A
Transform ==
    /\ ~returned
    /\ transformed' = TemplateDX_transform(plugins["A"], global_plugins, filters["A"],
                                           global_filters, tree, props, shared)
    /\ returned' = TRUE
    /\ UNCHANGED <<registryVars, evaluatorVars, tree, props, shared, extracted, gathered,
                   scopeVars, concurrentVars>>

\* get_raw_config after transform returned: the extractions found in the
\* caller's map under the promises key are awaited; the caller's map is
\* maps[1] when one was passed.
Gather ==
    /\ returned /\ ~gathered
    /\ transformed.exc = "none"
    /\ \E promises \in {IF shared.t = "dict"
                         THEN props_get(transformed.heap.maps[1], EXTRACT_TEXT_PROMISES_KEY,
                                        VList(<<>>)).v
                         ELSE <<>>} :
          extracted' = The({ Gathered(r.exc, r.fields) :
                             r \in {gather(NodeTransformer(1, plugins["A"], global_plugins,
                                                           filters["A"], global_filters),
                                           promises, <<>>, transformed.heap, <<>>)} })
    /\ gathered' = TRUE
    /\ UNCHANGED <<registryVars, evaluatorVars, tree, props, shared, transformed, returned,
                   scopeVars, concurrentVars>>

NextTransform == Transform \/ Gather

SpecTransform == InitTransform /\ [][NextTransform]_vars

\* The children of the root node transform returned.
OutputChildren == transformed.nodes[1].children

\* The values of the text nodes among them.
OutputTexts ==
    { OutputChildren[i].value :
        i \in {n \in 1..Len(OutputChildren) : OutputChildren[n].type = NODE_TYPES.TEXT} }

\* A prop's truth.
Prop(name) == props.v[name].v

\* Whether a node of the input is the element of that name.
IsElementNamed(node, name) == is_mdx_jsx_element(node) /\ node_get(node, "name", "") = name

\* C2 (as claimed): the map passed as shared is the root Scope's shared map
\* itself, so when transform returns the caller's map holds every key that was
\* written with set_shared during the call, whatever the map held at first.
C2_CallerMapReceivesWrites ==
    (returned /\ shared.t = "dict") =>
        /\ transformed.exc = "none"
        /\ transformed.heap.scopes[1].shared = 1
        /\ \A i \in 1..Len(transformed.trace) :
               transformed.trace[i].ev = "set_shared" =>
                   transformed.trace[i].what \in DOMAIN transformed.heap.maps[1]

\* The input is the run of siblings If, ElseIf, Else.
IsConditionalRun ==
    /\ returned
    /\ Len(tree.children) = 3
    /\ IsElementNamed(tree.children[1], "If")
    /\ IsElementNamed(tree.children[2], "ElseIf")
    /\ IsElementNamed(tree.children[3], "Else")

\* C3 (as claimed): of the siblings If, ElseIf, Else exactly one branch emits
\* its output, the first whose condition is truthy or else the Else branch,
\* whatever the branches contain (nested conditionals included).
C3_ExactlyOneBranch ==
    IsConditionalRun =>
        /\ transformed.exc = "none"
        /\ OutputTexts \cap {"A", "B", "C"} =
               {IF Prop("c1") THEN "A" ELSE IF Prop("c2") THEN "B" ELSE "C"}

\* The input is an If followed by an ElseIf, and the If's condition is true.
IsElseIfAfterTrueIf ==
    /\ returned
    /\ Len(tree.children) = 2
    /\ IsElementNamed(tree.children[1], "If")
    /\ IsElementNamed(tree.children[2], "ElseIf")
    /\ Prop("c1")

\* C4 (as claimed): an ElseIf processed while __condition_met is true never
\* evaluates its own condition: it yields no nodes, and a condition that would
\* raise does not abort the transform.
C4_ElseIfSkipsCondition ==
    IsElseIfAfterTrueIf =>
        /\ transformed.exc = "none"
        /\ \A i \in 1..Len(transformed.trace) :
               transformed.trace[i]
                   # Event("evaluate", tree.children[2].attributes[1].value.value)
        /\ Len(OutputChildren) = 1
        /\ OutputChildren[1] = TextNode("A")

\* The input holds a fragment element between two texts.
IsAroundFragment ==
    /\ returned
    /\ Len(tree.children) = 3
    /\ is_fragment_node(tree.children[2])

\* C5 (as claimed): an element whose name is empty, missing or "Fragment" is
\* transparent: its transformed children are spliced into the parent's
\* children and the wrapper element is not in the output.
C5_FragmentIsTransparent ==
    IsAroundFragment =>
        /\ transformed.exc = "none"
        /\ Len(OutputChildren) = 4
        /\ \A i \in 1..4 : OutputChildren[i].type = NODE_TYPES.TEXT
        /\ <<OutputChildren[1].value, OutputChildren[2].value,
             OutputChildren[3].value, OutputChildren[4].value>>
               = <<"pre", "A", props.v["x"].v, "post">>

\* The input is a ForEach over props.items.
IsForEach ==
    /\ returned
    /\ Len(tree.children) = 1
    /\ IsElementNamed(tree.children[1], "ForEach")
    /\ DOMAIN props.v = {"items"}

\* C6 (as claimed): a ForEach over N items whose body yields one text node per
\* item is replaced by exactly N nodes, the i-th being the body with the item
\* name bound to the i-th item and the index name to i, for every N >= 0.
C6_ForEachYieldsOnePerItem ==
    IsForEach =>
        LET items == props.v["items"].v
            body == tree.children[1].children[1].value
        IN /\ transformed.exc = "none"
           /\ Len(OutputChildren) = Len(items)
           /\ \A i \in 1..Len(items) :
                  /\ OutputChildren[i].type = NODE_TYPES.TEXT
                  /\ OutputChildren[i].value =
                         IF str_endswith(body, "index") THEN int_str(i - 1) ELSE items[i].v

\* Whether a node is an element that carries a spread attribute.
HasSpreadAttribute(node) ==
    /\ is_mdx_jsx_element(node)
    /\ \E i \in DOMAIN node.attributes :
           node.attributes[i].type = MDX_JSX_ATTRIBUTE_TYPES.MDX_JSX_EXPRESSION_ATTRIBUTE

\* The input is one element with a spread attribute, which the traversal
\* reaches as the first child of the root.
IsSpreadElement ==
    /\ returned
    /\ Len(tree.children) = 1
    /\ HasSpreadAttribute(tree.children[1])

\* C11 (as claimed): whenever the traversal reaches an element that carries a
\* spread attribute the transform fails, whether or not a plugin is registered
\* under the element's name.
C11_SpreadAlwaysRejected ==
    IsSpreadElement => transformed.exc # "none"

\* The input is a ForEach with a choice of children and of arr.
IsForEachShape ==
    /\ returned
    /\ Len(tree.children) = 1
    /\ IsElementNamed(tree.children[1], "ForEach")
    /\ DOMAIN props.v = {"items", "x"}

\* Whether the children are exactly one function-shaped expression.
IsOneFunctionChild(children) ==
    Len(children) = 1 /\ has_function_body(children[1])

\* C12 (as claimed): a ForEach whose children are not exactly one function
\* fails for every value of arr, list or not; a non-list arr yields an empty
\* result only when the child shape is valid.
C12_ForEachChildShapeChecked ==
    IsForEachShape =>
        LET children == tree.children[1].children
        IN /\ ~IsOneFunctionChild(children) => transformed.exc # "none"
           /\ (IsOneFunctionChild(children) /\ props.v["items"].t # "list") =>
                  (transformed.exc = "none" /\ OutputChildren = <<>>)

\* The objects written in place during the call, in order.
WrittenObjects ==
    {i \in 1..Len(transformed.trace) : transformed.trace[i].ev = "write"}

\* C17: transform never mutates its input, whether it returned or raised:
\* every object written in place (a node given a child list, a list appended
\* to, a props map filled) was made by this call before the write, so the
\* nodes of the input tree keep their fields, attribute lists and child lists;
\* and the caller's props map, which the root Scope holds under "props", is as
\* it was passed.
C17_InputNotMutated ==
    returned =>
        /\ \A i \in WrittenObjects :
               \E j \in 1..(i - 1) :
                   transformed.trace[j] = Event("new", transformed.trace[i].what)
        /\ LET held == transformed.heap.scopes[1].variables["props"]
           IN /\ held.t = "dict"
              /\ held = (IF Truthy(props) THEN props ELSE VDict(EmptyValueDict))

\* C17 witness: an element without a plugin was rebuilt around its transformed
\* children, and the tree returned differs from the tree passed.
C17_Witness ==
    /\ returned
    /\ transformed.exc = "none"
    /\ \E i \in WrittenObjects :
           transformed.trace[i].what = "_process_mdx_jsx_element.new_node"
    /\ transformed.nodes[1] # tree
    /\ Truthy(props)

RECURSIVE IsPlain(_)
\* Whether a tree holds no expression node and no tag-like element.
IsPlain(node) ==
    /\ node_get(node, "type", "")
           \notin {NODE_TYPES.MDX_TEXT_EXPRESSION, NODE_TYPES.MDX_FLOW_EXPRESSION}
    /\ ~is_mdx_jsx_element(node)
    /\ "children" \in DOMAIN node =>
           \A i \in DOMAIN node.children : IsPlain(node.children[i])

\* C18: for a tree that holds no expression node and no tag-like element,
\* transform returns a tree structurally equal to the input, for every props
\* and shared.
C18_PlainTreeRoundTrips ==
    (returned /\ IsPlain(tree)) =>
        /\ transformed.exc = "none"
        /\ Len(transformed.nodes) = 1
        /\ transformed.nodes[1] = tree

\* C18 witness: a tree of three levels with a heading, whose depth field has
\* to survive, was transformed with props and a shared map.
C18_Witness ==
    /\ returned
    /\ IsPlain(tree)
    /\ Len(tree.children) = 1
    /\ tree.children[1].type = "heading"
    /\ Len(tree.children[1].children) = 1
    /\ tree.children[1].children[1].type = NODE_TYPES.PARAGRAPH
    /\ Len(tree.children[1].children[1].children) = 1
    /\ Truthy(props)
    /\ Truthy(shared)
    /\ transformed.nodes[1] = tree

\* The input is a Raw element without attributes, with a choice of children.
IsRaw ==
    /\ returned
    /\ Len(tree.children) = 1
    /\ IsElementNamed(tree.children[1], "Raw")
    /\ tree.children[1].attributes = <<>>

\* C20: Raw never transforms its child subtree: it returns exactly one text
\* node, no expression of the subtree is evaluated, no plugin is looked up
\* for an element of it, no Scope entry is written, and children holding
\* expressions that would fail do not fail the transform.
C20_RawLeavesSubtreeAlone ==
    IsRaw =>
        /\ transformed.exc = "none"
        /\ Len(OutputChildren) = 1
        /\ OutputChildren[1].type = NODE_TYPES.TEXT
        /\ \A i \in 1..Len(transformed.trace) :
               /\ transformed.trace[i].ev \notin {"evaluate", "set_shared", "lookup", "call"}
               /\ transformed.trace[i].ev = "tag_lookup" => i = 3
        /\ transformed.heap.scopes
               = <<ScopeObj([k \in {"props"} |-> props], Len(transformed.heap.maps), 0)>>
        /\ transformed.heap.maps[Len(transformed.heap.maps)]
               = (IF Truthy(shared) THEN shared.v ELSE EmptyValueDict)

\* C20 witness: the Raw element held an expression calling an unregistered
\* filter, and transform returned its text.
C20_Witness ==
    /\ IsRaw
    /\ Len(tree.children[1].children) = 1
    /\ tree.children[1].children[1].type = NODE_TYPES.MDX_TEXT_EXPRESSION
    /\ tree.children[1].children[1].value = "nope(props.x)"
    /\ transformed.exc = "none"
    /\ OutputChildren = <<TextNode("{nope(props.x)}")>>

(***************************************************************************)
(* Concurrent transform() calls on one engine                              *)
(***************************************************************************)

\* The concurrent calls.
Calls == {1, 2}

\* The arguments of a call: a run of If / ElseIf / Else under each truth of the
\* conditions, a ForEach over one and two items after a text, role tags with
\* a shared map of the call's own.
ConcurrentArguments ==
    << [tree |-> ConditionalRun(1, 1, 1), props |-> BooleanProps({"c1", "c2"}, {}),
        shared |-> VNull],
       [tree |-> ConditionalRun(1, 1, 1), props |-> BooleanProps({"c1", "c2"}, {"c1"}),
        shared |-> VNull],
       [tree |-> ConditionalRun(1, 1, 1), props |-> BooleanProps({"c1", "c2"}, {"c2"}),
        shared |-> VNull],
       [tree |-> ConditionalRun(1, 1, 1), props |-> BooleanProps({"c1", "c2"}, {"c1", "c2"}),
        shared |-> VNull],
       [tree |-> IfThenElseIf("props.c2 / 0"), props |-> BooleanProps({"c1", "c2"}, {"c1"}),
        shared |-> VNull],
       [tree |-> Root(<<TextNode("pre")>> \o ForEachOver("(item, index) => item").children),
        props |-> VDict([key \in {"items"} |-> VList(Items(2))]), shared |-> VNull],
       [tree |-> RoleTemplate(<<"System", "Assistant">>), props |-> VDict(EmptyValueDict),
        shared |-> VDict([key \in {"other"} |-> VInt(1)])] >>

\* A call that was not started yet.
IdleCall(arguments) ==
    [ tree |-> arguments.tree, props |-> arguments.props, shared |-> arguments.shared,
      pc |-> "idle", sid |-> 0, next |-> 1, results |-> <<>>, exc |-> "none",
      overlapped |-> FALSE ]

\* Engine A is language_templatedx; each call is given its own arguments.
InitConcurrent ==
    /\ global_filters = BuiltinFilters
    /\ global_plugins = BuiltinTagPlugins
    /\ constructed = {"A"}
    /\ filters = [e \in Engines |-> IF e = "A" THEN BuiltinFilters ELSE EmptyDict]
    /\ plugins = [e \in Engines |-> IF e = "A" THEN LanguagePlugins ELSE EmptyDict]
    /\ last = Op("register_tag_plugin", "A", "System", "SimpleTextPlugin")
    /\ nops = 2
    /\ expression = ""
    /\ scope_variables = EmptyValueDict
    /\ outcome = Returned(VNull, <<>>)
    /\ evaluated = FALSE
    /\ tree = [type |-> "root", children |-> <<>>]
    /\ props = VNull
    /\ shared = VNull
    /\ transformed = XNodes(<<>>, Heap(<<>>, <<>>), <<>>)
    /\ returned = FALSE
    /\ extracted = Gathered("none", <<>>)
    /\ gathered = FALSE
    /\ scope_heap = Heap(<<>>, <<>>)
    /\ scope_last = ScopeOp("none", 0, None, VNull)
    /\ conc_heap = Heap(<<>>, <<>>)
    /\ \E i, j \in DOMAIN ConcurrentArguments :
           calls = <<IdleCall(ConcurrentArguments[i]), IdleCall(ConcurrentArguments[j])>>

\* Whether a call is between its first and its last step.
MidWay(c) == calls[c].pc = "children" /\ calls[c].next > 1

\* TemplateDX.transform up to the first await inside transform_children of the
\* root: the root Scope and the NodeTransformer are built.
StartTransform(c) ==
    /\ calls[c].pc = "idle"
    /\ \E made \in {NewRootScope(conc_heap,
                                   [k \in {"props"} |->
                                       IF Truthy(calls[c].props) THEN calls[c].props
                                       ELSE VDict(EmptyValueDict)],
                                   calls[c].shared)} :
          /\ conc_heap' = made.heap
          /\ calls' = [calls EXCEPT ![c].pc = "children", ![c].sid = made.sid]
    /\ UNCHANGED <<registryVars, evaluatorVars, transformVars, scopeVars>>

\* One iteration of the loop of transform_children over the children of the
\* root: `result = await self.transform_node(child)`, then extend or append.
StepTransform(c) ==
    /\ calls[c].pc = "children"
    /\ calls[c].next <= Len(calls[c].tree.children)
    /\ \E result \in {transform_node(NodeTransformer(calls[c].sid, plugins["A"], global_plugins,
                                                       filters["A"], global_filters),
                                       calls[c].tree.children[calls[c].next],
                                       conc_heap, <<>>)},
          overlapped \in {calls[c].overlapped \/ \E d \in Calls \ {c} : MidWay(d)} :
          /\ conc_heap' = result.heap
          /\ calls' = IF result.exc # "none"
                      THEN [calls EXCEPT ![c].pc = "done", ![c].exc = result.exc,
                                         ![c].overlapped = overlapped]
                      ELSE [calls EXCEPT ![c].next = @ + 1,
                                         ![c].results = @ \o result.nodes,
                                         ![c].overlapped = overlapped]
    /\ UNCHANGED <<registryVars, evaluatorVars, transformVars, scopeVars>>

\* The loop is over: transform_node gives the copy of the root its children
\* and transform returns it.
FinishTransform(c) ==
    /\ calls[c].pc = "children"
    /\ calls[c].next > Len(calls[c].tree.children)
    /\ calls' = [calls EXCEPT ![c].pc = "done"]
    /\ UNCHANGED <<registryVars, evaluatorVars, transformVars, scopeVars, conc_heap>>

NextConcurrent ==
    \E c \in Calls : StartTransform(c) \/ StepTransform(c) \/ FinishTransform(c)

SpecConcurrent == InitConcurrent /\ [][NextConcurrent]_vars

\* What the call returns when it runs alone.
Alone(c) ==
    TemplateDX_transform(plugins["A"], global_plugins, filters["A"], global_filters,
                         calls[c].tree, calls[c].props, calls[c].shared)

\* The keys of a shared map and the number of pending extractions in it.
SharedSummary(map) ==
    << DOMAIN map,
       IF EXTRACT_TEXT_PROMISES_KEY \in DOMAIN map
       THEN Len(map[EXTRACT_TEXT_PROMISES_KEY].v) ELSE 0 >>

\* C19: two transform() calls on one engine, interleaved between the children
\* of the root, each return what they return when run alone (the exception or
\* the tree, and the entries of the call's shared map): each has its own root
\* Scope, so nothing one call writes is read by the other.
C19_ConcurrentAsAlone ==
    \A c \in DOMAIN calls :
        calls[c].pc = "done" =>
            LET alone == Alone(c)
                root == conc_heap.scopes[calls[c].sid]
            IN /\ calls[c].exc = alone.exc
               /\ alone.exc = "none" =>
                      /\ [calls[c].tree EXCEPT !.children = calls[c].results] = alone.nodes[1]
                      /\ SharedSummary(conc_heap.maps[root.shared])
                             = SharedSummary(alone.heap.maps[alone.heap.scopes[1].shared])

\* C19 witness: both calls are done, each took a step while the other was
\* between its If and its Else, and their conditions differ, so they emitted
\* different branches.
C19_Witness ==
    /\ DOMAIN calls = Calls
    /\ \A c \in Calls : calls[c].pc = "done" /\ calls[c].overlapped /\ calls[c].exc = "none"
    /\ calls[1].results = <<TextNode("A")>>
    /\ calls[2].results = <<TextNode("C")>>

(***************************************************************************)
(* Call expressions                                                        *)
(***************************************************************************)

\* Whether the expression evaluated is one of the call expressions.
IsCallExpression ==
    evaluated /\ expression \in CallExpressions
        /\ DOMAIN scope_variables = {"l", "item", "props", "upper"}

\* The names of the filters called, in order.
Called == SelectSeq(outcome.trace, LAMBDA event : event.ev = "call")

\* C22: a call expression invokes only a function held in the filter registry
\* under the callee's bare identifier: a callee that is not a bare identifier,
\* an unregistered name and an empty argument list raise EvaluationError
\* without calling anything, and a name bound in the Scope as well is called
\* from the registry, never from the Scope.
C22_CallsOnlyRegisteredFilters ==
    IsCallExpression =>
        /\ \A i \in DOMAIN Called :
               /\ get_filter("A", Called[i].what) # None
               /\ \E j \in DOMAIN outcome.trace :
                      outcome.trace[j] = Event("lookup", Called[i].what)
        /\ expression \in NonIdentifierCalls \cup UnregisteredCalls \cup EmptyCalls =>
               outcome.exc = "EvaluationError" /\ Called = <<>>
        /\ expression = "upper(l)" =>
               /\ outcome.exc = "none"
               /\ Called = <<Event("call", "upper")>>
               /\ SameValue(outcome.v, upper(scope_variables["l"], <<>>).v)
        /\ expression = "upper(upper)" =>
               /\ outcome.exc = "none"
               /\ SameValue(outcome.v, upper(scope_variables["upper"], <<>>).v)

\* C22 witness: upper(l) was evaluated with l = "s" while the Scope binds the
\* name upper to a string; the registered filter was called.
C22_Witness ==
    /\ IsCallExpression
    /\ expression = "upper(l)"
    /\ scope_variables["l"].t = "str" /\ scope_variables["l"].v = "s"
    /\ scope_variables["upper"].t = "str" /\ scope_variables["upper"].v = "Ab"
    /\ outcome.exc = "none" /\ outcome.v.t = "str" /\ outcome.v.v = "S"
    /\ Called = <<Event("call", "upper")>>

(***************************************************************************)
(* Operator precedence                                                     *)
(***************************************************************************)

\* The levels of the binary operators, loosest first.
Level(op) ==
    CASE op = "||" -> 1
      [] op = "&&" -> 2
      [] op \in {"==", "!=", "===", "!=="} -> 3
      [] op \in {"<", ">", "<=", ">="} -> 4
      [] op \in {"+", "-"} -> 5
      [] OTHER -> 6

RECURSIVE Leaves(_)
\* The operands and operators of a tree of literals, left to right.
Leaves(node) ==
    CASE node.k = "Binary" -> Leaves(node.left) \o <<node.operator>> \o Leaves(node.right)
      [] node.k = "Unary" -> <<node.operator>> \o Leaves(node.argument)
      [] OTHER -> <<int_str(node.value.v)>>

RECURSIVE Grouped(_)
\* Whether a tree groups as the levels say: under a binary operator the left
\* operand is no looser binary expression and the right operand a strictly
\* tighter one (left associativity); the argument of a unary operator is no
\* binary expression.
Grouped(node) ==
    CASE node.k = "Binary" ->
           /\ Grouped(node.left) /\ Grouped(node.right)
           /\ node.left.k = "Binary" => Level(node.left.operator) >= Level(node.operator)
           /\ node.right.k = "Binary" => Level(node.right.operator) > Level(node.operator)
      [] node.k = "Unary" -> node.argument.k # "Binary" /\ Grouped(node.argument)
      [] OTHER -> TRUE

\* The texts of the tokens before the end of the expression.
TokenTexts(tokens) ==
    [i \in 1..(Len(tokens) - 1) |->
        IF tokens[i].type = "number" THEN int_str(tokens[i].value.v) ELSE tokens[i].value.v]

C24_MinusBetweenOperandsIsBinary ==
    \A a \in MinusOperands, b \in MinusOperands, form \in MinusForms :
        (evaluated /\ expression = MinusForm(a, b, form)) =>
            /\ outcome.exc = "none"
            /\ outcome.v = VInt(a - b)

(***************************************************************************)
(* Built-in filters                                                        *)
(***************************************************************************)

\* The filter called by the expression, when it is a call of a built-in
\* type-specific filter on l with arguments of the types its signature names.
FilterCalled ==
    IF expression \in FilterExpressions /\ DOMAIN scope_variables = {"l", "n", "s", "r"}
    THEN {name \in DOMAIN BuiltinFilters \ {"dump"} :
             \E extras \in {"", ", n", ", s", ", s, r"} : expression = CallOf(name, extras)}
    ELSE {}

\* Whether a value is of the type the filter operates on.
OperatesOn(name, value) ==
    CASE name \in {"abs", "round"} -> IsNumber(value)
      [] name = "join" -> value.t = "list"
      [] OTHER -> value.t = "str"

\* C21 (as claimed): a built-in type-specific filter called on an input that
\* is not of the type it operates on returns the input unchanged, without
\* raising.
C21_NonMatchingPassesThrough ==
    \A name \in FilterCalled :
        (evaluated /\ ~OperatesOn(name, scope_variables["l"])) =>
            /\ outcome.exc = "none"
            /\ SameValue(outcome.v, scope_variables["l"])

(***************************************************************************)
(* User messages and their attachments                                     *)
(***************************************************************************)

\* Whether the tree transformed is a message template.
IsMessageTemplate ==
    /\ returned
    /\ props.t = "dict" /\ DOMAIN props.v = {"m"}
    /\ tree.children \in MessageTemplates(MaxElements)

IsAttachment(node) == node.name \in {"ImageAttachment", "FileAttachment"}

\* Whether some attachment among the children of an element stands there.
HoldsAttachment(element) ==
    \E i \in DOMAIN element.children :
        "name" \in DOMAIN element.children[i] /\ IsAttachment(element.children[i])

\* Whether some attachment of the template stands outside every User element:
\* at the top or inside a System element.
AttachmentOutsideUser ==
    \E i \in DOMAIN tree.children :
        \/ IsAttachment(tree.children[i])
        \/ tree.children[i].name # USER /\ HoldsAttachment(tree.children[i])

\* C25 (as claimed): a template with an ImageAttachment or FileAttachment
\* outside every User element is rejected with an error, by transform or when
\* the extractions are awaited, wherever the attachment stands and whatever was
\* processed before it.
C25_AttachmentOutsideUserRejected ==
    (IsMessageTemplate /\ AttachmentOutsideUser) =>
        \/ transformed.exc # "none"
        \/ gathered => extracted.exc # "none"

\* The media part an attachment element stands for.
PartOf(node) ==
    IF node.name = "ImageAttachment"
    THEN VDict([k \in {"type", "image"} |->
                   IF k = "type" THEN VStr("image") ELSE node.attributes[1].value])
    ELSE VDict([k \in {"type", "data", "mimeType"} |->
                   CASE k = "type" -> VStr("file")
                     [] k = "data" -> node.attributes[1].value
                     [] OTHER -> node.attributes[2].value])

\* The media parts of the attachments among the children of a User element,
\* in document order.
PartsOf(element) ==
    LET attachments == SelectSeq(element.children,
                                 LAMBDA node : "name" \in DOMAIN node /\ IsAttachment(node))
    IN [i \in DOMAIN attachments |-> PartOf(attachments[i])]

\* The media parts in the content of an extracted message.
MediaOf(field) ==
    IF field.v["content"].t = "list" THEN Tail(field.v["content"].v) ELSE <<>>

\* C28 (as claimed): in a template whose attachments all stand inside User
\* elements, the content of each User message holds exactly the media parts of
\* the attachments nested in that User element, in document order.
C28_UserMessageHoldsOwnParts ==
    (IsMessageTemplate /\ ~AttachmentOutsideUser /\ gathered /\ extracted.exc = "none") =>
        /\ Len(extracted.fields) = Len(tree.children)
        /\ \A i \in DOMAIN tree.children :
               tree.children[i].name = USER =>
                   MediaOf(extracted.fields[i]) = PartsOf(tree.children[i])

(***************************************************************************)
(* ForEach list aggregation                                                *)
(***************************************************************************)

\* The text an index is rendered as.
IndexText(index) == <<"0", "1", "2", "3", "4", "5">>[index + 1]

\* What one iteration of the i-th body produces for an item and its index.
Produced(i, item, index) ==
    CASE i = 1 -> <<ListItem(<<TextNode(item)>>)>>
      [] i = 2 -> <<List(TRUE, <<ListItem(<<TextNode("x")>>), ListItem(<<TextNode(item)>>)>>)>>
      [] i = 3 -> <<ListItem(<<TextNode(IndexText(index))>>),
                    List(FALSE, <<ListItem(<<TextNode(item)>>)>>)>>
      [] i = 4 -> <<ListItem(<<TextNode(item)>>), Paragraph(<<TextNode(item)>>)>>
      [] i = 5 -> <<Paragraph(<<TextNode(item)>>)>>
      [] i = 6 -> (IF index = 1 THEN <<Paragraph(<<TextNode("p")>>)>> ELSE <<>>)
                      \o <<ListItem(<<TextNode(item)>>)>>
      [] i = 7 -> IF index = 1 THEN <<ListItem(<<TextNode(item)>>)>> ELSE <<>>
      [] i = 8 -> <<TextNode(item)>>
      [] OTHER -> <<>>

RECURSIVE ProducedUpTo(_, _, _)
\* The nodes the first n iterations produce, iteration after iteration.
ProducedUpTo(i, items, n) ==
    IF n = 0 THEN <<>>
    ELSE ProducedUpTo(i, items, n - 1) \o Produced(i, items[n].v, n - 1)

RECURSIVE ItemsIn(_)
\* The list items of a run of list items and lists, in order: an item stands
\* for itself, a list for its children.
ItemsIn(nodes) ==
    IF nodes = <<>> THEN <<>>
    ELSE LET final == nodes[Len(nodes)]
         IN ItemsIn(SubSeq(nodes, 1, Len(nodes) - 1))
                \o (IF final.type = NODE_TYPES.LIST THEN final.children ELSE <<final>>)

\* The input is a ForEach over props.items with the i-th body.
IsListForEach(i) ==
    /\ returned
    /\ tree = Root(<<ForEachBody(ListBodies[i])>>)

\* C26: when every node produced over all iterations is a list or a list
\* item, ForEach returns exactly one unordered list whose children are, in
\* iteration order, each list item produced and the children of each list
\* produced; when some node produced is of another type, it returns the
\* outputs of the iterations one after the other.
C26_ListAggregation ==
    \A i \in DOMAIN ListBodies :
        IsListForEach(i) =>
            LET produced == ProducedUpTo(i, props.v["items"].v, Len(props.v["items"].v))
            IN /\ transformed.exc = "none"
               /\ OutputChildren
                      = (IF \A k \in DOMAIN produced :
                                produced[k].type \in {NODE_TYPES.LIST, NODE_TYPES.LIST_ITEM}
                         THEN << [type |-> NODE_TYPES.LIST, ordered |-> FALSE,
                                  spread |-> FALSE, children |-> ItemsIn(produced)] >>
                         ELSE produced)

\* C26 witness: two iterations each produced a list item and a list of one
\* item, and one list of the four items came back, in iteration order.
C26_Witness ==
    /\ IsListForEach(3)
    /\ props.v["items"] = VList(Items(2))
    /\ OutputChildren
           = << [type |-> NODE_TYPES.LIST, ordered |-> FALSE, spread |-> FALSE,
                 children |-> << ListItem(<<TextNode("0")>>), ListItem(<<TextNode("a")>>),
                                 ListItem(<<TextNode("1")>>), ListItem(<<TextNode("b")>>) >>] >>

(***************************************************************************)
(* Siblings in document order                                              *)
(***************************************************************************)

\* The expressions evaluated and the tags looked up while a sibling of a kind
\* at position p and all below it is transformed, in document order.
StepsOf(kind, p) ==
    CASE kind = "text" -> <<>>
      [] kind = "expression" -> <<Event("evaluate", PositionExpression(p))>>
      [] kind = "parent" -> << Event("evaluate", PositionExpression(p)),
                               Event("tag_lookup", "Box"),
                               Event("evaluate", PositionExpression(p)) >>
      [] kind = "if" -> << Event("tag_lookup", "If"), Event("evaluate", "props.on"),
                           Event("evaluate", PositionExpression(p)) >>
      [] kind = "skipped" -> <<Event("tag_lookup", "If"), Event("evaluate", "props.off")>>
      [] kind = "loop" -> << Event("tag_lookup", "ForEach"), Event("evaluate", "props.items"),
                             Event("evaluate", "item"), Event("evaluate", "item") >>
      [] OTHER -> <<Event("tag_lookup", "System")>>

\* The nodes such a sibling yields.
YieldOf(kind, p) ==
    CASE kind = "text" -> <<TextNode(PositionText(p))>>
      [] kind = "expression" -> <<TextNode(PositionText(p))>>
      [] kind = "parent" ->
             << Paragraph(<< TextNode(PositionText(p)),
                             FlowElement("Box", <<>>, <<TextNode(PositionText(p))>>) >>) >>
      [] kind = "if" -> <<TextNode(PositionText(p)), TextNode("t")>>
      [] kind = "loop" -> << TextNode(PositionText(p)), TextNode("a"),
                             TextNode(PositionText(p)), TextNode("b") >>
      [] OTHER -> <<>>

RECURSIVE StepsOfRun(_, _)
\* The steps of the first n siblings of a run, sibling after sibling.
StepsOfRun(kinds, n) ==
    IF n = 0 THEN <<>> ELSE StepsOfRun(kinds, n - 1) \o StepsOf(kinds[n], n)

RECURSIVE YieldOfRun(_, _)
\* What the first n siblings of a run yield, sibling after sibling.
YieldOfRun(kinds, n) ==
    IF n = 0 THEN <<>> ELSE YieldOfRun(kinds, n - 1) \o YieldOf(kinds[n], n)

\* The expressions evaluated and the tags looked up by the transform, in the
\* order they happened.
StepsTaken ==
    SelectSeq(transformed.trace, LAMBDA e : e.ev \in {"evaluate", "tag_lookup"})

\* The input is the run of siblings of these kinds.
IsSiblingRun(kinds) ==
    /\ returned
    /\ props = SiblingProps
    /\ tree = Root(SiblingsOf(kinds))

\* C27: transform_children takes the siblings in document order and finishes
\* each, with everything below it and its plugin call, before it starts the
\* next: the evaluations and tag lookups of the transform are those of the
\* first sibling, then those of the second, and so on; the output is one flat
\* list in which what sibling i yields stands before what sibling i+1 yields.
C27_SiblingsInDocumentOrder ==
    \A kinds \in SiblingRuns(MaxElements) :
        IsSiblingRun(kinds) =>
            /\ transformed.exc = "none"
            /\ StepsTaken = StepsOfRun(kinds, Len(kinds))
            /\ OutputChildren = YieldOfRun(kinds, Len(kinds))
            /\ \A i \in DOMAIN OutputChildren : "type" \in DOMAIN OutputChildren[i]

\* C27 witness: a ForEach, a paragraph around an element and an If stood side
\* by side, and the transform returned what they yield, in that order.
C27_Witness ==
    /\ IsSiblingRun(<<"loop", "parent", "if">>)
    /\ transformed.exc = "none"
    /\ Len(OutputChildren) = 7
    /\ StepsTaken[1] = Event("tag_lookup", "ForEach")
    /\ StepsTaken[Len(StepsTaken)] = Event("evaluate", "props.c")

(***************************************************************************)
(* ForEach iterations and their scopes                                     *)
(***************************************************************************)

\* What one iteration of the i-th conditional body renders when no condition
\* flag of another iteration or of the enclosing Scope is seen.
RenderedBy(i, item, index) ==
    CASE i = 1 -> <<TextNode("E"), TextNode(item)>>
      [] i = 2 -> <<TextNode("EI")>>
      [] i = 3 -> IF index = 0 THEN <<TextNode("A")>> ELSE <<TextNode(IndexText(index))>>
      [] OTHER -> <<TextNode(item)>>

RECURSIVE RenderedUpTo(_, _, _)
\* What the first n iterations render, iteration after iteration.
RenderedUpTo(i, items, n) ==
    IF n = 0 THEN <<>>
    ELSE RenderedUpTo(i, items, n - 1) \o RenderedBy(i, items[n].v, n - 1)

\* What the j-th run of nodes after the ForEach renders when it sees no
\* condition flag and no binding of the loop.
RenderedAfter(j) ==
    CASE j = 1 -> <<>>
      [] j = 5 -> <<TextNode(""), TextNode("")>>
      [] OTHER -> <<TextNode("after")>>

\* The input is a ForEach with the i-th conditional body, followed by the
\* j-th run of nodes.
IsConditionalLoop(i, j) ==
    /\ returned
    /\ tree = Root(<<ForEachBody(ConditionalBodies[i])>> \o AfterLoop[j])

\* C29: each ForEach iteration runs against a fresh child Scope: every
\* iteration has a Scope of its own below the enclosing one, holding its item
\* and index; a condition flag set in the body is seen neither by the ElseIf
\* and Else of a later iteration nor by ElseIf and Else elements after the
\* ForEach; the enclosing Scope holds no item, no index and no flag written
\* from the body after the loop.
C29_IterationsDoNotLeak ==
    \A i \in DOMAIN ConditionalBodies : \A j \in DOMAIN AfterLoop :
        IsConditionalLoop(i, j) =>
            LET items == props.v["items"].v
                n == Len(items)
                scopes == transformed.heap.scopes
            IN /\ transformed.exc = "none"
               /\ OutputChildren
                      = (IF n = 0 THEN <<List(FALSE, <<>>)>> ELSE RenderedUpTo(i, items, n))
                            \o RenderedAfter(j)
               /\ Len(scopes) = n + 1
               /\ \A k \in 1..n :
                      /\ scopes[k + 1].parent = 1
                      /\ scopes[k + 1].variables["item"] = items[k]
                      /\ scopes[k + 1].variables["index"] = VInt(k - 1)
               /\ DOMAIN scopes[1].variables \cap {"item", "index"} = {}
               /\ "__condition_met" \in DOMAIN scopes[1].variables => j = 3

\* C29 witness: the body held an ElseIf and an Else, two iterations each
\* rendered the ElseIf, and the Else after the ForEach rendered as well.
C29_Witness ==
    /\ IsConditionalLoop(2, 2)
    /\ props = LoopProps(2)
    /\ OutputChildren = <<TextNode("EI"), TextNode("EI"), TextNode("after")>>
    /\ Len(transformed.heap.scopes) = 3
    /\ Truthy(Scope_get_local(transformed.heap, 2, "__condition_met"))
    /\ Truthy(Scope_get_local(transformed.heap, 3, "__condition_met"))

(***************************************************************************)
(* The instance table shadows the global table                             *)
(***************************************************************************)

\* C30: an entry held in an engine's instance table shadows the global
\* table: a register_global made after the engine was constructed leaves the
\* lookup of every name in the engine's instance table (registered on the
\* engine, or copied at its construction) as it was.
C30_InstanceShadowsGlobal ==
    [][/\ last'.op = "register_global_filter" =>
             \A e \in constructed : \A n \in DOMAIN filters[e] :
                 /\ get_filter(e, n)' = get_filter(e, n)
                 /\ get_filter(e, n)' = filters[e][n]
       /\ last'.op = "register_global_tag" =>
             \A e \in constructed : \A n \in DOMAIN plugins[e] :
                 /\ get_tag_plugin(e, n)' = get_tag_plugin(e, n)
                 /\ get_tag_plugin(e, n)' = plugins[e][n]]_vars

\* C30 witness: a filter was registered globally under a name an engine
\* holds in its instance table with another function, and the engine still
\* resolves the name to its own.
C30_Witness ==
    /\ last.op = "register_global_filter"
    /\ \E e \in constructed :
          /\ last.name \in DOMAIN filters[e]
          /\ filters[e][last.name] # last.obj
          /\ global_filters[last.name] = last.obj
          /\ get_filter(e, last.name) = filters[e][last.name]

====
